---- MODULE Spec2Model ----
(***************************************************************************)
(* Chunk streaming of the driving simulator: the seeded generator          *)
(* (utils/rng.ts), the chunk generator worker                              *)
(* (generator/chunk-generator.worker.ts), the math helpers (utils/math.ts) *)
(* and the ChunkManager (generator/chunk-manager.ts).                      *)
(*                                                                         *)
(* Numbers.  A JavaScript bit operation works on the 32-bit pattern of its *)
(* operands.  A 32-bit pattern is written here as a pair <<hi, lo>> of     *)
(* 16-bit halves, so that no intermediate value leaves the range of the    *)
(* model checker's integers.                                               *)
(***************************************************************************)
EXTENDS Integers, Sequences, FiniteSets, TLC

----------------------------------------------------------------------------
(* Program constants *)

CHUNK_SIZE == 256

BLOCK_SIZE == 64

ROAD_WIDTH == 8

loadRadius == 3

DefaultWorldSeed == 12345

----------------------------------------------------------------------------
(* 32-bit arithmetic on halves *)

RECURSIVE Pow2(_)
Pow2(n) == IF n = 0 THEN 1 ELSE 2 * Pow2(n - 1)

\* 2^16
Half == Pow2(16)

RECURSIVE XorBits(_, _, _)
XorBits(a, b, n) ==
  IF n = 0 THEN 0
  ELSE (((a % 2) + (b % 2)) % 2) + (2 * XorBits(a \div 2, b \div 2, n - 1))

RECURSIVE OrBits(_, _, _)
OrBits(a, b, n) ==
  IF n = 0 THEN 0
  ELSE (IF a % 2 = 1 \/ b % 2 = 1 THEN 1 ELSE 0)
       + (2 * OrBits(a \div 2, b \div 2, n - 1))

\* ToInt32 / ToUint32 of an integer in -2^31 .. 2^31 - 1: its two's-complement pattern
ToU32(x) ==
  IF x >= 0 THEN <<x \div Half, x % Half>>
  ELSE <<(Half - 1) - ((-(x + 1)) \div Half), (Half - 1) - ((-(x + 1)) % Half)>>

\* a ^ b
Xor32(a, b) == <<XorBits(a[1], b[1], 16), XorBits(a[2], b[2], 16)>>

\* a | b
Or32(a, b) == <<OrBits(a[1], b[1], 16), OrBits(a[2], b[2], 16)>>

\* a >>> s for 0 < s < 16: zero-filling, the high half never sign-extends
Shr32(a, s) ==
  <<a[1] \div Pow2(s), (a[2] \div Pow2(s)) + ((a[1] % Pow2(s)) * Pow2(16 - s))>>

\* (a + b) mod 2^32
Add32(a, b) ==
  LET lo == a[2] + b[2]
  IN  <<(a[1] + b[1] + (lo \div Half)) % Half, lo % Half>>

\* low 16 bits of the product of two 16-bit numbers, by 8-bit limbs
MulLo16(x, y) ==
  LET x0 == x % 256  x1 == x \div 256
      y0 == y % 256  y1 == y \div 256
  IN  ((x0 * y0) + ((((x1 * y0) + (x0 * y1)) % 256) * 256)) % Half

\* high 16 bits of the 32-bit product of two 16-bit numbers
MulHi16(x, y) ==
  LET x0 == x % 256  x1 == x \div 256
      y0 == y % 256  y1 == y \div 256
      mid == (x1 * y0) + (x0 * y1)
      low == (x0 * y0) + ((mid % 256) * 256)
  IN  (x1 * y1) + (mid \div 256) + (low \div Half)

\* Math.imul(a, b): the low 32 bits of the product
Imul(a, b) ==
  <<(MulHi16(a[2], b[2]) + MulLo16(a[2], b[1]) + MulLo16(a[1], b[2])) % Half,
    MulLo16(a[2], b[2])>>

----------------------------------------------------------------------------
(* utils/rng.ts *)

\* 0x85ebca6b, 0xc2b2ae35, 0x6d2b79f5 as halves
HashMulX == <<34283, 51819>>

HashMulY == <<49842, 44597>>

RngIncrement == <<27947, 31221>>

\* a >> s for 0 < s < 16: the sign bit fills the high half
Sar32(a, s) ==
  <<(a[1] \div Pow2(s)) + (IF a[1] >= Pow2(15) THEN Half - Pow2(16 - s) ELSE 0),
    (a[2] \div Pow2(s)) + ((a[1] % Pow2(s)) * Pow2(16 - s))>>

\* a hash whose last shift is `>>`: HashChunkAsSpecified tells it apart
hashChunkSignExtending(seedBits, chunkX, chunkY) ==
  LET h1 == Imul(Xor32(seedBits, ToU32(chunkX)), HashMulX)
      h2 == Imul(Xor32(h1, ToU32(chunkY)), HashMulY)
  IN  Xor32(h2, Sar32(h2, 13))

\* the body of hashChunk on the 32-bit pattern of worldSeed (`^` reads its
\* operands through ToInt32)
hashChunkOf(seedBits, chunkX, chunkY) ==
  LET h1 == Imul(Xor32(seedBits, ToU32(chunkX)), HashMulX)
      h2 == Imul(Xor32(h1, ToU32(chunkY)), HashMulY)
  IN  Xor32(h2, Shr32(h2, 13))

\* hashChunk(worldSeed, chunkX, chunkY)
hashChunk(seedOfWorld, chunkX, chunkY) == hashChunkOf(ToU32(seedOfWorld), chunkX, chunkY)

\* The generator's state is a JavaScript number that `state += 0x6d2b79f5`
\* never truncates: [ovf, bits] stands for ovf * 2^32 + bits.
SeededRNG(seed) == [ovf |-> 0, bits |-> seed]

\* the state after one `this.state += 0x6d2b79f5`
rngAdvance(st) ==
  LET lo == st.bits[2] + RngIncrement[2]
      hi == st.bits[1] + RngIncrement[1] + (lo \div Half)
  IN  [ovf |-> st.ovf + (hi \div Half), bits |-> <<hi % Half, lo % Half>>]

\* the 32-bit numerator of the value next() returns after advancing to st:
\* next() = rngOutput / 4294967296
rngOutput(st) ==
  LET t0 == st.bits
      t1 == Imul(Xor32(t0, Shr32(t0, 15)), Or32(t0, <<0, 1>>))
      t2 == Xor32(t1, Add32(t1, Imul(Xor32(t1, Shr32(t1, 7)), Or32(t1, <<0, 61>>))))
  IN  Xor32(t2, Shr32(t2, 14))

\* floor(u / 2^32 * span) for a 32-bit numerator u and a small integer span
ScaleFloor(u, span) == ((u[1] * span) + ((u[2] * span) \div Half)) \div Half

\* a nextInt whose range includes max: BlocksHoldOneToThree tells it apart
nextIntInclusive(st, min, max) == ScaleFloor(rngOutput(st), (max - min) + 1) + min

\* nextInt(min, max) on the value of one next() call
nextInt(st, min, max) == ScaleFloor(rngOutput(st), max - min) + min

\* (u * span) mod 2^32: the numerator of the fractional part of u / 2^32 * span
ScaleRest(u, span) ==
  <<((u[1] * span) + ((u[2] * span) \div Half)) % Half, (u[2] * span) % Half>>

\* one call rng.next() in state st: the numerator of the value returned and the
\* state the call leaves
rngNext(st) ==
  LET drawn == rngAdvance(st)
  IN  [value |-> rngOutput(drawn), rng |-> drawn]

\* a nextInt that draws again when the first value is in the lower half:
\* OneDrawPerDerivedCall tells it apart
rngNextIntRedrawing(st, min, max) ==
  LET first == rngNext(st)
      drawn == IF first.value[1] < Pow2(15) THEN rngNext(first.rng) ELSE first
  IN  [value |-> ScaleFloor(drawn.value, max - min) + min, rng |-> drawn.rng]

\* one call rng.nextInt(min, max): Math.floor(this.next() * (max - min)) + min
rngNextInt(st, min, max) ==
  LET drawn == rngNext(st)
  IN  [value |-> ScaleFloor(drawn.value, max - min) + min, rng |-> drawn.rng]

\* one call rng.nextFloat(min, max) with integers min and max:
\* this.next() * (max - min) + min, as its floor and the numerator (over 2^32) of
\* what is left; these doubles are exact for operands of this size
rngNextFloat(st, min, max) ==
  LET drawn == rngNext(st)
  IN  [value |-> [whole |-> ScaleFloor(drawn.value, max - min) + min,
                  rest |-> ScaleRest(drawn.value, max - min)],
       rng |-> drawn.rng]

\* one call rng.nextBool(): this.next() < 0.5
rngNextBool(st) ==
  LET drawn == rngNext(st)
  IN  [value |-> drawn.value[1] < Pow2(15), rng |-> drawn.rng]

----------------------------------------------------------------------------
(* utils/math.ts *)

\* a worldToChunk that rounds towards zero (Math.trunc): ChunkIsFloorOfPosition
\* tells it apart
worldToChunkTruncating(worldPos) ==
  LET trunc(n) == IF n < 0 THEN -((-n) \div CHUNK_SIZE) ELSE n \div CHUNK_SIZE
  IN  [x |-> trunc(worldPos.x), y |-> trunc(worldPos.z)]

\* worldToChunk(worldPos): Math.floor of x and z over CHUNK_SIZE; y is not read
worldToChunk(worldPos) ==
  [x |-> worldPos.x \div CHUNK_SIZE, y |-> worldPos.z \div CHUNK_SIZE]

DigitChars == <<"0", "1", "2", "3", "4", "5", "6", "7", "8", "9">>

RECURSIVE NatToString(_)
NatToString(n) ==
  IF n < 10 THEN DigitChars[n + 1]
  ELSE NatToString(n \div 10) \o DigitChars[(n % 10) + 1]

\* the string a template literal makes of an integer
NumberToString(n) == IF n < 0 THEN "-" \o NatToString(-n) ELSE NatToString(n)

\* chunkKey(chunk): `${chunk.x},${chunk.y}`
chunkKey(chunk) == NumberToString(chunk.x) \o "," \o NumberToString(chunk.y)

\* key.split(',')
RECURSIVE SplitComma(_)
SplitComma(str) ==
  LET commas == {i \in 1..Len(str) : SubSeq(str, i, i) = ","}
  IN  IF commas = {} THEN <<str>>
      ELSE LET i == CHOOSE j \in commas : \A k \in commas : j <= k
           IN  <<SubSeq(str, 1, i - 1)>> \o SplitComma(SubSeq(str, i + 1, Len(str)))

DigitValue(ch) == (CHOOSE d \in 1..10 : DigitChars[d] = ch) - 1

RECURSIVE DigitsToNat(_)
DigitsToNat(str) ==
  IF Len(str) = 0 THEN 0
  ELSE (10 * DigitsToNat(SubSeq(str, 1, Len(str) - 1)))
       + DigitValue(SubSeq(str, Len(str), Len(str)))

\* Number(str) of a decimal integer literal
StringToNumber(str) ==
  IF Len(str) > 0 /\ Head(str) = "-" THEN -DigitsToNat(Tail(str)) ELSE DigitsToNat(str)

\* const [x, y] = key.split(',').map(Number)
keyToChunk(key) ==
  LET parts == SplitComma(key)
  IN  [x |-> StringToNumber(parts[1]), y |-> StringToNumber(parts[2])]

----------------------------------------------------------------------------
(* generator/chunk-generator.worker.ts *)

RECURSIVE rngSkip(_, _)
\* the state after n further next() calls
rngSkip(st, n) == IF n = 0 THEN st ELSE rngSkip(rngAdvance(st), n - 1)

\* next() calls made for one building: four nextFloat for the footprint, one for the height
CallsPerBuilding == 5

numRoads == CHUNK_SIZE \div BLOCK_SIZE

RECURSIVE Repeat(_, _)
\* the list of n copies of v
Repeat(v, n) == IF n = 0 THEN <<>> ELSE Append(Repeat(v, n - 1), v)

\* the roads of one direction: grid lines 0..numRoads, each a polyline of two points
gridRoads == Repeat(2, numRoads + 1)

\* numBuildings of each remaining block, in loop order, starting from state st
RECURSIVE blockBuildingCounts(_, _)
blockBuildingCounts(st, blocks) ==
  IF blocks = 0 THEN <<>>
  ELSE LET blockWidth == BLOCK_SIZE - (ROAD_WIDTH * 2)
           drawn == rngAdvance(st)
           numBuildings == nextInt(drawn, 1, 4)
       IN  IF blockWidth <= 0 THEN blockBuildingCounts(st, blocks - 1)
           ELSE <<numBuildings>>
                \o blockBuildingCounts(rngSkip(drawn, numBuildings * CallsPerBuilding),
                                       blocks - 1)

RECURSIVE SumSeq(_)
SumSeq(q) == IF q = <<>> THEN 0 ELSE Head(q) + SumSeq(Tail(q))

\* generateChunk(chunkId, worldSeed), as far as the manager's control flow reads
\* its result: a road is the number of its points, a building the number of
\* vertices of its footprint, a collision primitive its type
generateChunkFrom(chunkId, seedOfWorld) ==
  LET seed == hashChunk(seedOfWorld, chunkId.x, chunkId.y)
      total == SumSeq(blockBuildingCounts(SeededRNG(seed), numRoads * numRoads))
  IN  [chunkId |-> chunkId,
       roads |-> gridRoads \o gridRoads,
       buildings |-> Repeat(4, total),
       collisionPrimitives |-> Repeat("box", total)]

\* a road loop with `<` for `<=`, which leaves out the last grid line:
\* RoadGrid tells it apart
RECURSIVE roadsOfLoopOpen(_, _, _)
roadsOfLoopOpen(origin, across, i) ==
  IF i >= numRoads THEN <<>>
  ELSE LET at == i * BLOCK_SIZE
           segments ==
             IF across
             THEN <<[x |-> origin.x + at, y |-> origin.y],
                    [x |-> origin.x + at, y |-> origin.y + CHUNK_SIZE]>>
             ELSE <<[x |-> origin.x, y |-> origin.y + at],
                    [x |-> origin.x + CHUNK_SIZE, y |-> origin.y + at]>>
       IN  <<[segments |-> segments,
              type |-> IF i % 2 = 0 THEN "primary" ELSE "secondary"]>>
           \o roadsOfLoopOpen(origin, across, i + 1)

\* the roads of one loop of generateChunk, i = 0..numRoads: two end points and
\* the type; `across` is the vertical loop
RECURSIVE roadsOfLoop(_, _, _)
roadsOfLoop(origin, across, i) ==
  IF i > numRoads THEN <<>>
  ELSE LET at == i * BLOCK_SIZE
           segments ==
             IF across
             THEN <<[x |-> origin.x + at, y |-> origin.y],
                    [x |-> origin.x + at, y |-> origin.y + CHUNK_SIZE]>>
             ELSE <<[x |-> origin.x, y |-> origin.y + at],
                    [x |-> origin.x + CHUNK_SIZE, y |-> origin.y + at]>>
       IN  <<[segments |-> segments,
              type |-> IF i % 2 = 0 THEN "primary" ELSE "secondary"]>>
           \o roadsOfLoop(origin, across, i + 1)

\* the numerators of the next n next() calls after state st
RECURSIVE drawsFrom(_, _)
drawsFrom(st, n) ==
  IF n = 0 THEN <<>>
  ELSE LET drawn == rngAdvance(st)
       IN  <<rngOutput(drawn)>> \o drawsFrom(drawn, n - 1)

\* buildings i..numBuildings-1 of one block. A building is what its fields are
\* computed from: row and col, the numerators of its five nextFloat calls
\* (x, y, width, depth, height), and the arguments of the noise2D call that
\* picks the archetype (Math.sin is left uninterpreted).
RECURSIVE buildingsOfBlock(_, _, _, _)
buildingsOfBlock(st, i, numBuildings, block) ==
  IF i >= numBuildings THEN <<>>
  ELSE <<[block |-> block, numBuildings |-> numBuildings,
          row |-> i \div 2, col |-> i % 2,
          draws |-> drawsFrom(st, CallsPerBuilding)]>>
       \o buildingsOfBlock(rngSkip(st, CallsPerBuilding), i + 1, numBuildings, block)

\* the block loops of generateChunk from block b on (bx outer, by inner), run on
\* the generator state st: the buildings pushed and the generator left behind
RECURSIVE generateBlocks(_, _, _, _, _)
generateBlocks(st, b, origin, seed, buildings) ==
  IF b >= numRoads * numRoads THEN [buildings |-> buildings, rng |-> st]
  ELSE LET blockX == origin.x + ((b \div numRoads) * BLOCK_SIZE) + ROAD_WIDTH
           blockY == origin.y + ((b % numRoads) * BLOCK_SIZE) + ROAD_WIDTH
           blockWidth == BLOCK_SIZE - (ROAD_WIDTH * 2)
           drawn == rngAdvance(st)
           numBuildings == nextInt(drawn, 1, 4)
           block == [noiseX |-> blockX, noiseY |-> blockY, noiseSeed |-> seed]
       IN  IF blockWidth <= 0 THEN generateBlocks(st, b + 1, origin, seed, buildings)
           ELSE generateBlocks(rngSkip(drawn, numBuildings * CallsPerBuilding),
                               b + 1, origin, seed,
                               buildings
                               \o buildingsOfBlock(drawn, 0, numBuildings, block))

\* a generator that goes on from the one an earlier call left behind:
\* SameInputSameChunk tells it apart
rngCarriedOver(left, seed) == IF left = [none |-> TRUE] THEN SeededRNG(seed) ELSE left

\* const rng = new SeededRNG(seed): whatever generator an earlier call of
\* generateChunk left behind (`left`), this call constructs its own
rngOfCall(left, seed) == SeededRNG(seed)

\* Lengths of a building are kept exactly, as whole + rest / 2^32 in units of
\* 1/200 of a world unit (whole an integer, rest a 32-bit numerator); halves
\* and hundredths of a world unit are then whole numbers of units. The doubles
\* of the code differ from these values by rounding only (below 10^-12).
Units == 200

\* n world units
FxWorld(n) == [whole |-> n * Units, rest |-> <<0, 0>>]

\* u / 2^32 * span units, for a 32-bit numerator u
FxScaled(u, span) == [whole |-> ScaleFloor(u, span), rest |-> ScaleRest(u, span)]

FxAdd(a, b) ==
  LET lo == a.rest[2] + b.rest[2]
      hi == a.rest[1] + b.rest[1] + (lo \div Half)
  IN  [whole |-> a.whole + b.whole + (hi \div Half), rest |-> <<hi % Half, lo % Half>>]

\* Math.ceil(Math.sqrt(n)) for n >= 1
CeilSqrt(n) == CHOOSE k \in 1..n : (k * k >= n) /\ ((k - 1) * (k - 1) < n)

\* the bounds of nextFloat(0.7, 0.95), in hundredths
ScaleLow == 70

ScaleHigh == 95

\* the bound of nextFloat(0, 5)
MaxJitter == 5

\* the bounds of the height draw of an archetype
HeightRange(archetype) ==
  IF archetype = "residential" THEN <<8, 20>>
  ELSE IF archetype = "office" THEN <<20, 60>>
  ELSE <<6, 15>>

\* a collision primitive placed at the corner (bldgX, bldgY) of its building
\* instead of the centre: BoxMatchesBuilding tells it apart
boxAtCorner(bldgX, bldgY, halfW, halfD, halfH) ==
  [type |-> "box",
   position |-> [x |-> bldgX, y |-> halfH, z |-> bldgY],
   size |-> [x |-> FxAdd(halfW, halfW), y |-> FxAdd(halfH, halfH),
             z |-> FxAdd(halfD, halfD)],
   rotation |-> 0]

\* collisionPrimitives.push({type: 'box', position: {x: bldgX + bldgW / 2,
\* y: height / 2, z: bldgY + bldgD / 2}, size: {x: bldgW, y: height, z: bldgD},
\* rotation: 0}), from the halves of width, depth and height
boxOf(bldgX, bldgY, halfW, halfD, halfH) ==
  [type |-> "box",
   position |-> [x |-> FxAdd(bldgX, halfW), y |-> halfH, z |-> FxAdd(bldgY, halfD)],
   size |-> [x |-> FxAdd(halfW, halfW), y |-> FxAdd(halfH, halfH),
             z |-> FxAdd(halfD, halfD)],
   rotation |-> 0]

\* the body of the building loop with every building in row 0 (col = i):
\* FootprintInsideChunk tells it apart
placeBuildingInOneRow(blockX, blockY, numBuildings, i, archetype, draws) ==
  LET blockWidth == BLOCK_SIZE - (ROAD_WIDTH * 2)
      buildingWidth == blockWidth \div CeilSqrt(numBuildings)
      buildingDepth == blockWidth \div CeilSqrt(numBuildings)
      bldgX == FxAdd(FxWorld(blockX + (i * buildingWidth)),
                     FxScaled(draws[1], MaxJitter * Units))
      bldgY == FxAdd(FxWorld(blockY), FxScaled(draws[2], MaxJitter * Units))
      halfW == FxAdd([whole |-> buildingWidth * ScaleLow, rest |-> <<0, 0>>],
                     FxScaled(draws[3], buildingWidth * (ScaleHigh - ScaleLow)))
      halfD == FxAdd([whole |-> buildingDepth * ScaleLow, rest |-> <<0, 0>>],
                     FxScaled(draws[4], buildingDepth * (ScaleHigh - ScaleLow)))
      range == HeightRange(archetype)
      halfH == FxAdd([whole |-> range[1] * (Units \div 2), rest |-> <<0, 0>>],
                     FxScaled(draws[5], (range[2] - range[1]) * (Units \div 2)))
      farX == FxAdd(bldgX, FxAdd(halfW, halfW))
      farY == FxAdd(bldgY, FxAdd(halfD, halfD))
  IN  [row |-> 0, col |-> i,
       building |-> [footprint |-> <<[x |-> bldgX, y |-> bldgY], [x |-> farX, y |-> bldgY],
                                     [x |-> farX, y |-> farY], [x |-> bldgX, y |-> farY]>>,
                     height |-> FxAdd(halfH, halfH),
                     archetype |-> archetype],
       primitive |-> boxOf(bldgX, bldgY, halfW, halfD, halfH)]

\* the body of the building loop for building i of a block at (blockX, blockY)
\* that holds numBuildings: draws are the numerators of its five nextFloat calls
\* in call order (x jitter, y jitter, width scale, depth scale, height). The
\* building pushed, the collision primitive pushed, and row and col.
placeBuilding(blockX, blockY, numBuildings, i, archetype, draws) ==
  LET blockWidth == BLOCK_SIZE - (ROAD_WIDTH * 2)
      buildingWidth == blockWidth \div CeilSqrt(numBuildings)
      buildingDepth == blockWidth \div CeilSqrt(numBuildings)
      row == i \div 2
      col == i % 2
      bldgX == FxAdd(FxWorld(blockX + (col * buildingWidth)),
                     FxScaled(draws[1], MaxJitter * Units))
      bldgY == FxAdd(FxWorld(blockY + (row * buildingDepth)),
                     FxScaled(draws[2], MaxJitter * Units))
      halfW == FxAdd([whole |-> buildingWidth * ScaleLow, rest |-> <<0, 0>>],
                     FxScaled(draws[3], buildingWidth * (ScaleHigh - ScaleLow)))
      halfD == FxAdd([whole |-> buildingDepth * ScaleLow, rest |-> <<0, 0>>],
                     FxScaled(draws[4], buildingDepth * (ScaleHigh - ScaleLow)))
      range == HeightRange(archetype)
      halfH == FxAdd([whole |-> range[1] * (Units \div 2), rest |-> <<0, 0>>],
                     FxScaled(draws[5], (range[2] - range[1]) * (Units \div 2)))
      farX == FxAdd(bldgX, FxAdd(halfW, halfW))
      farY == FxAdd(bldgY, FxAdd(halfD, halfD))
  IN  [row |-> row, col |-> col,
       building |-> [footprint |-> <<[x |-> bldgX, y |-> bldgY], [x |-> farX, y |-> bldgY],
                                     [x |-> farX, y |-> farY], [x |-> bldgX, y |-> farY]>>,
                     height |-> FxAdd(halfH, halfH),
                     archetype |-> archetype],
       primitive |-> boxOf(bldgX, bldgY, halfW, halfD, halfH)]

\* generateChunk(chunkId, worldSeed) in full, its generator being st when the
\* block loops start: the ChunkData returned and the generator left behind
generateChunkOn(st, chunkId, seed) ==
  LET origin == [x |-> chunkId.x * CHUNK_SIZE, y |-> chunkId.y * CHUNK_SIZE]
      blocks == generateBlocks(st, 0, origin, seed, <<>>)
  IN  [data |-> [chunkId |-> chunkId,
                 roads |-> roadsOfLoop(origin, FALSE, 0) \o roadsOfLoop(origin, TRUE, 0),
                 intersections |-> <<>>,
                 buildings |-> blocks.buildings,
                 collisionPrimitives |-> Repeat("box", Len(blocks.buildings))],
       rng |-> blocks.rng]

----------------------------------------------------------------------------
(* Bounds and inputs of the model *)

\* update() calls over one run
MaxUpdates == 3

\* requests posted to the worker over one run
MaxPosted == 64

\* results posted by the worker and not yet handled by the manager
MaxResults == 1

\* direct unloadChunk calls in a behaviour of SpecEvict
MaxUnloads == 1

\* update() calls in a behaviour of SpecEvict
MaxEvictUpdates == 2

\* update() calls in a behaviour of SpecDispose
MaxDisposeUpdates == 2

\* update() calls in a behaviour of SpecFailure
MaxFailureUpdates == 2

\* update() calls in a behaviour of SpecProtocol
MaxProtocolUpdates == 1

\* update() calls in a behaviour of SpecReorder
MaxReorderUpdates == 1

\* results posted by the worker and not yet handled, in SpecReorder
MaxReorderResults == 2

\* results handled before SpecReorder goes back to handling the oldest first
MaxReordered == 8

\* generateChunk calls in a behaviour of SpecGenerate
MaxGenerations == 3

\* calls on one SeededRNG in a behaviour of SpecRng
MaxCalls == 4

\* collision primitives of a ChunkData in SpecPrimitives
MaxPrimitives == 2

\* update() calls in a behaviour of SpecLifecycle
MaxLifecycleUpdates == 2

\* keys with a result handled in a behaviour of SpecLifecycle
MaxLifecycleResults == 42

MaxGameUpdates == 2

MaxRestarts == 1

MaxLateUpdates == 2

\* the positions update() is called with (the vehicle starts at (0, 2, 0))
PlayerPositions ==
  { [x |-> 0, y |-> 2, z |-> 0],
    [x |-> 300, y |-> 2, z |-> 40],
    [x |-> 600, y |-> 1, z |-> 100] }

WorldSeeds == {DefaultWorldSeed}

Least(S) == CHOOSE n \in S : \A m \in S : n <= m

Greatest(S) == CHOOSE n \in S : \A m \in S : m <= n

\* the chunks some update() of the model can request lie in this box
MinChunkX == Least({worldToChunk(p).x : p \in PlayerPositions}) - loadRadius

MaxChunkX == Greatest({worldToChunk(p).x : p \in PlayerPositions}) + loadRadius

MinChunkY == Least({worldToChunk(p).y : p \in PlayerPositions}) - loadRadius

MaxChunkY == Greatest({worldToChunk(p).y : p \in PlayerPositions}) + loadRadius

RECURSIVE generateColumn(_, _, _)
generateColumn(x, y, seedOfWorld) ==
  IF y > MaxChunkY THEN <<>>
  ELSE <<generateChunkFrom([x |-> x, y |-> y], seedOfWorld)>>
       \o generateColumn(x, y + 1, seedOfWorld)

RECURSIVE generateColumns(_, _)
generateColumns(x, seedOfWorld) ==
  IF x > MaxChunkX THEN <<>>
  ELSE <<generateColumn(x, MinChunkY, seedOfWorld)>> \o generateColumns(x + 1, seedOfWorld)

\* generateChunk is a pure function: its results for the default seed, computed once
GeneratedChunks == generateColumns(MinChunkX, DefaultWorldSeed)

generateChunk(chunkId, seedOfWorld) ==
  IF /\ seedOfWorld = DefaultWorldSeed
     /\ chunkId.x \in MinChunkX..MaxChunkX
     /\ chunkId.y \in MinChunkY..MaxChunkY
  THEN GeneratedChunks[(chunkId.x - MinChunkX) + 1][(chunkId.y - MinChunkY) + 1]
  ELSE generateChunkFrom(chunkId, seedOfWorld)

\* the chunks and seeds the worker on its own is asked for
GenerateChunkIds ==
  { [x |-> 0, y |-> 0], [x |-> 1, y |-> 0], [x |-> 0, y |-> -1], [x |-> -3, y |-> 2] }

GenerateSeeds == {DefaultWorldSeed, 0}

\* generateChunk run on a generator of its own, for these chunks and seeds,
\* computed once
GeneratedInFull ==
  { [chunkId |-> c, worldSeed |-> w,
     chunk |-> generateChunkOn(SeededRNG(hashChunk(w, c.x, c.y)), c,
                               hashChunk(w, c.x, c.y))] :
      c \in GenerateChunkIds, w \in GenerateSeeds }

\* generateChunk(chunkId, worldSeed) in full, in a worker where an earlier call
\* left the generator `left` behind
generateChunkAfter(left, chunkId, seedOfWorld) ==
  LET seed == hashChunk(seedOfWorld, chunkId.x, chunkId.y)
      rng == rngOfCall(left, seed)
  IN  IF rng = SeededRNG(seed) /\ chunkId \in GenerateChunkIds
                               /\ seedOfWorld \in GenerateSeeds
      THEN (CHOOSE g \in GeneratedInFull :
              g.chunkId = chunkId /\ g.worldSeed = seedOfWorld).chunk
      ELSE generateChunkOn(rng, chunkId, seed)

----------------------------------------------------------------------------
(* generator/chunk-manager.ts *)

VARIABLES
  loadedChunks,   \* Map<string, LoadedChunk>: key -> [data, meshes, physicsBodies],
                  \* the two lists by their lengths
  worldSeed,      \* this.worldSeed
  workerAlive,    \* FALSE once worker.terminate() was called
  workerInbox,    \* messages posted to the worker, not yet handled by it (in order)
  managerInbox,   \* messages posted by the worker, not yet handled by the manager
  scene,          \* key -> number of drawables added for that chunk and still in the scene
  physics,        \* key -> number of static bodies created for that chunk and still alive
  previousChunk,  \* history: the observer chunk of the update() before the latest
  playerChunk,    \* history: the observer chunk of the latest update(), or NoChunk
  updates,        \* history: number of update() calls so far
  requested,      \* history: the keys the latest update() requested, in order
  evicted,        \* history: the keys the latest update() unloaded
  consumed,       \* history: the keys a generation result was handled for
  lastResult,     \* history: the key of the result handled last, and whether that key
                  \* was loaded when the result arrived (NoResult before the first)
  lastUnload,     \* history: the key of the latest direct unloadChunk call, and
                  \* whether that key was loaded at the call (NoUnload before the first)
  unloads,        \* history: the number of direct unloadChunk calls
  posted,         \* history: number of requests posted so far
  created,        \* history: key -> create calls made materializing its current LoadedChunk
  released,       \* history: key -> [creates, removes] of its latest unload
  probe           \* the call under examination when a function of rng.ts or of the
                  \* worker is applied on its own: its inputs and what it returned;
                  \* the Game's own state when the Game drives the manager
                  \* (NoProbe while the manager runs by itself)

vars ==
  <<loadedChunks, worldSeed, workerAlive, workerInbox, managerInbox, scene, physics,
    previousChunk, playerChunk, updates, requested, evicted, consumed, lastResult,
    lastUnload, unloads, posted, created, released, probe>>

\* everything but probe
managerVars ==
  <<loadedChunks, worldSeed, workerAlive, workerInbox, managerInbox, scene, physics,
    previousChunk, playerChunk, updates, requested, evicted, consumed, lastResult,
    lastUnload, unloads, posted, created, released>>

NoChunk == [none |-> TRUE]

NoResult == [none |-> TRUE]

NoUnload == [none |-> TRUE]

NoProbe == [none |-> TRUE]

EmptyMap == [k \in {} |-> 0]

\* a counter map read at a key it may not hold
Count(map, key) == IF key \in DOMAIN map THEN map[key] ELSE 0

\* map with key set to n; keys at zero are not kept
SetCount(map, key, n) ==
  [k \in (IF n = 0 THEN DOMAIN map \ {key} ELSE DOMAIN map \cup {key}) |->
     IF k = key THEN n ELSE map[k]]

\* map without key
Without(map, key) == [k \in DOMAIN map \ {key} |-> map[k]]

ManagerInit ==
  /\ loadedChunks = EmptyMap
  /\ worldSeed \in WorldSeeds
  /\ workerAlive = TRUE
  /\ workerInbox = <<>>
  /\ managerInbox = <<>>
  /\ scene = EmptyMap
  /\ physics = EmptyMap
  /\ previousChunk = NoChunk
  /\ playerChunk = NoChunk
  /\ updates = 0
  /\ requested = <<>>
  /\ evicted = {}
  /\ consumed = {}
  /\ lastResult = NoResult
  /\ lastUnload = NoUnload
  /\ unloads = 0
  /\ posted = 0
  /\ created = EmptyMap
  /\ released = EmptyMap

\* the manager as constructed, nothing called on its own
Init ==
  /\ ManagerInit
  /\ probe = NoProbe

\* a request loop with `<` for `<=` in both bounds: LoadSetIsTheSquare tells it apart
loadSquareOpen(center) ==
  LET side == 2 * loadRadius
  IN  [i \in 1..(side * side) |->
         [x |-> (center.x - loadRadius) + ((i - 1) \div side),
          y |-> (center.y - loadRadius) + ((i - 1) % side)]]

\* the chunks the request loop of update() visits, in order: x outer, y inner
loadSquare(center) ==
  LET side == (2 * loadRadius) + 1
  IN  [i \in 1..(side * side) |->
         [x |-> (center.x - loadRadius) + ((i - 1) \div side),
          y |-> (center.y - loadRadius) + ((i - 1) % side)]]

\* a request loop that skips the has(key) test for the observer's own chunk:
\* ResidentNeverRequested tells it apart
chunksAndCenter(center, loaded) ==
  LET wanted(chunk) == chunk = center \/ chunkKey(chunk) \notin DOMAIN loaded
  IN  SelectSeq(loadSquare(center), wanted)

\* the chunks update() calls requestChunk for
chunksToRequest(center, loaded) ==
  LET notLoaded(chunk) == chunkKey(chunk) \notin DOMAIN loaded
  IN  SelectSeq(loadSquare(center), notLoaded)

\* an unload test with `>=` for `>`: EvictionRule tells it apart
distanceReaches(dx, dy, limit) == (dx * dx) + (dy * dy) >= limit * limit

\* Math.sqrt(dx * dx + dy * dy) > limit, for integers: the square root is monotone
\* and exact on perfect squares
distanceExceeds(dx, dy, limit) == (dx * dx) + (dy * dy) > limit * limit

\* an unload loop that measures along the axes: BoundedAfterUpdate tells it apart
keysToUnloadBySquare(center, loaded) ==
  { key \in DOMAIN loaded :
      LET c == keyToChunk(key)
      IN  \/ distanceExceeds(c.x - center.x, 0, loadRadius + 1)
          \/ distanceExceeds(0, c.y - center.y, loadRadius + 1) }

\* the keys update() pushes to toUnload
keysToUnload(center, loaded) ==
  { key \in DOMAIN loaded :
      LET c == keyToChunk(key)
      IN  distanceExceeds(c.x - center.x, c.y - center.y, loadRadius + 1) }

\* requestChunk(chunkId): the message posted to the worker
requestMessage(chunkId, seed) ==
  [type |-> "generate", chunkId |-> chunkId, worldSeed |-> seed]

\* loadChunkMeshes: scene.add calls (ground, one per road segment pair, one per
\* building with a footprint of at least 3 points)
RECURSIVE roadMeshCount(_)
roadMeshCount(roads) ==
  IF roads = <<>> THEN 0
  ELSE (IF Head(roads) > 1 THEN Head(roads) - 1 ELSE 0)
       + roadMeshCount(Tail(roads))

buildingMeshCount(buildings) ==
  LET drawn(footprint) == ~(footprint < 3) IN Len(SelectSeq(buildings, drawn))

sceneAddCalls(data) == 1 + roadMeshCount(data.roads) + buildingMeshCount(data.buildings)

\* loadChunkMeshes: the length of the list `meshes` (every mesh added is pushed)
meshesPushed(data) == 1 + roadMeshCount(data.roads) + buildingMeshCount(data.buildings)

\* loadChunkMeshes: physics.createStaticBox calls (box primitives only)
createStaticBoxCalls(data) ==
  LET isBox(type) == type = "box" IN Len(SelectSeq(data.collisionPrimitives, isBox))

\* a loadChunkMeshes that keeps no body: ResourceSymmetry tells it apart
bodiesDropped(data) == 0

\* loadChunkMeshes: the length of the list `physicsBodies`
bodiesPushed(data) ==
  LET isBox(type) == type = "box" IN Len(SelectSeq(data.collisionPrimitives, isBox))

\* a loadChunkMeshes without the has(key) test: ResidentResultIgnored tells it apart
neverLoaded(key, loaded) == FALSE

\* a loadChunkMeshes that tests for any loaded chunk instead of has(key):
\* ResultsCommute tells it apart
anyLoaded(key, loaded) == loaded # EmptyMap

\* loadChunkMeshes returns at once when the key is loaded
alreadyLoaded(key, loaded) == key \in DOMAIN loaded

\* the manager's resources, as unloadChunk and loadChunkMeshes change them
Resources == [loaded |-> loadedChunks, scene |-> scene, physics |-> physics,
              created |-> created, released |-> released]

\* unloadChunk(key) finds no chunk and returns
nothingToUnload(key, loaded) == key \notin DOMAIN loaded

\* an unloadChunk that leaves the bodies in the physics world: AtomicEviction tells
\* it apart
unloadChunkMeshesOnly(r, key) ==
  IF nothingToUnload(key, r.loaded) THEN r
  ELSE LET chunk == r.loaded[key]
       IN  [loaded |-> Without(r.loaded, key),
            scene |-> SetCount(r.scene, key, Count(r.scene, key) - chunk.meshes),
            physics |-> r.physics,
            created |-> r.created,
            released |-> [k \in DOMAIN r.released \cup {key} |->
                            IF k = key
                            THEN [creates |-> Count(r.created, key),
                                  removes |-> chunk.meshes]
                            ELSE r.released[k]]]

\* an unloadChunk that, finding no chunk under the key, unloads some loaded chunk:
\* EvictAbsentIsNoOp tells it apart
unloadChunkOrAny(r, key) ==
  IF r.loaded = EmptyMap THEN r
  ELSE LET found == IF key \in DOMAIN r.loaded THEN key
                    ELSE CHOOSE k \in DOMAIN r.loaded : TRUE
           chunk == r.loaded[found]
       IN  [loaded |-> Without(r.loaded, found),
            scene |-> SetCount(r.scene, found, Count(r.scene, found) - chunk.meshes),
            physics |-> SetCount(r.physics, found,
                                 Count(r.physics, found) - chunk.physicsBodies),
            created |-> r.created,
            released |-> [k \in DOMAIN r.released \cup {found} |->
                            IF k = found
                            THEN [creates |-> Count(r.created, found),
                                  removes |-> chunk.meshes + chunk.physicsBodies]
                            ELSE r.released[k]]]

\* an unloadChunk that puts an empty chunk (its ground mesh) under a key it does
\* not find: CreatedOnlyByResult tells it apart
unloadChunkOrPlaceholder(r, key) ==
  IF key \in DOMAIN r.loaded
  THEN LET chunk == r.loaded[key]
       IN  [loaded |-> Without(r.loaded, key),
            scene |-> SetCount(r.scene, key, Count(r.scene, key) - chunk.meshes),
            physics |-> SetCount(r.physics, key,
                                 Count(r.physics, key) - chunk.physicsBodies),
            created |-> r.created,
            released |-> [k \in DOMAIN r.released \cup {key} |->
                            IF k = key
                            THEN [creates |-> Count(r.created, key),
                                  removes |-> chunk.meshes + chunk.physicsBodies]
                            ELSE r.released[k]]]
  ELSE [loaded |-> [k \in DOMAIN r.loaded \cup {key} |->
                      IF k = key
                      THEN [data |-> [chunkId |-> keyToChunk(key), roads |-> <<>>,
                                      buildings |-> <<>>, collisionPrimitives |-> <<>>],
                            meshes |-> 1, physicsBodies |-> 0]
                      ELSE r.loaded[k]],
        scene |-> SetCount(r.scene, key, Count(r.scene, key) + 1),
        physics |-> r.physics,
        created |-> SetCount(r.created, key, 1),
        released |-> r.released]

\* unloadChunk(key)
unloadChunk(r, key) ==
  IF nothingToUnload(key, r.loaded) THEN r
  ELSE LET chunk == r.loaded[key]
       IN  [loaded |-> Without(r.loaded, key),
            scene |-> SetCount(r.scene, key, Count(r.scene, key) - chunk.meshes),
            physics |-> SetCount(r.physics, key,
                                 Count(r.physics, key) - chunk.physicsBodies),
            created |-> r.created,
            released |-> [k \in DOMAIN r.released \cup {key} |->
                            IF k = key
                            THEN [creates |-> Count(r.created, key),
                                  removes |-> chunk.meshes + chunk.physicsBodies]
                            ELSE r.released[k]]]

\* a forEach that stops after the first key: DisposeReleasesAll tells it apart
unloadFirst(r, keys) ==
  IF keys = {} THEN r
  ELSE unloadChunk(r, CHOOSE k \in keys : TRUE)

\* keys.forEach(key => this.unloadChunk(key)); once no chunk is loaded every
\* remaining call returns at its first test
RECURSIVE unloadEach(_, _)
unloadEach(r, keys) ==
  IF keys = {} \/ r.loaded = EmptyMap THEN r
  ELSE LET key == CHOOSE k \in keys : TRUE
       IN  unloadEach(unloadChunk(r, key), keys \ {key})

\* loadChunkMeshes(data)
loadChunkMeshes(r, data) ==
  LET key == chunkKey(data.chunkId)
  IN  IF alreadyLoaded(key, r.loaded) THEN r
      ELSE [loaded |-> [k \in DOMAIN r.loaded \cup {key} |->
                          IF k = key
                          THEN [data |-> data,
                                meshes |-> meshesPushed(data),
                                physicsBodies |-> bodiesPushed(data)]
                          ELSE r.loaded[k]],
            scene |-> SetCount(r.scene, key, Count(r.scene, key) + sceneAddCalls(data)),
            physics |-> SetCount(r.physics, key,
                                 Count(r.physics, key) + createStaticBoxCalls(data)),
            created |-> [k \in DOMAIN r.created \cup {key} |->
                           IF k = key
                           THEN sceneAddCalls(data) + createStaticBoxCalls(data)
                           ELSE r.created[k]],
            released |-> r.released]

SetResources(r) ==
  /\ loadedChunks' = r.loaded
  /\ scene' = r.scene
  /\ physics' = r.physics
  /\ created' = r.created
  /\ released' = r.released

\* the messages worker.postMessage delivers: none once the worker is terminated
postAll(msgs) == IF workerAlive THEN workerInbox \o msgs ELSE workerInbox

\* update(playerPos), as one of at most `limit` calls
UpdateWithin(playerPos, limit) ==
  LET center == worldToChunk(playerPos)
      chunks == chunksToRequest(center, loadedChunks)
      toUnload == keysToUnload(center, loadedChunks)
  IN  /\ updates < limit
      /\ posted + Len(chunks) <= MaxPosted
      /\ workerInbox' = postAll([i \in 1..Len(chunks) |->
                                   requestMessage(chunks[i], worldSeed)])
      /\ SetResources(unloadEach(Resources, toUnload))
      /\ previousChunk' = playerChunk
      /\ playerChunk' = center
      /\ requested' = [i \in 1..Len(chunks) |-> chunkKey(chunks[i])]
      /\ evicted' = toUnload
      /\ posted' = posted + Len(chunks)
      /\ updates' = updates + 1
      /\ UNCHANGED <<worldSeed, probe, workerAlive, managerInbox, consumed, lastResult,
                     lastUnload, unloads>>

\* update(playerPos)
Update(playerPos) == UpdateWithin(playerPos, MaxUpdates)

\* the worker's self.onmessage, on the oldest message posted to it, while fewer than
\* `limit` results wait for the manager
WorkerMessageWithin(limit) ==
  /\ workerAlive
  /\ workerInbox # <<>>
  /\ Len(managerInbox) < limit
  /\ LET msg == Head(workerInbox)
     IN  /\ workerInbox' = Tail(workerInbox)
         /\ managerInbox' =
              IF msg.type = "generate"
              THEN Append(managerInbox,
                          [type |-> "chunk",
                           data |-> generateChunk(msg.chunkId, msg.worldSeed)])
              ELSE managerInbox
  /\ UNCHANGED <<loadedChunks, worldSeed, probe, workerAlive, scene, physics, previousChunk,
                 playerChunk, updates, requested, evicted, consumed, lastResult,
                 lastUnload, unloads, posted, created, released>>

\* the worker's self.onmessage
WorkerMessage == WorkerMessageWithin(MaxResults)

\* onWorkerMessage(e), on the oldest message the worker posted
HandleMessage ==
  /\ managerInbox # <<>>
  /\ LET msg == Head(managerInbox)
     IN  /\ managerInbox' = Tail(managerInbox)
         /\ IF msg.type = "chunk"
            THEN /\ SetResources(loadChunkMeshes(Resources, msg.data))
                 /\ consumed' = consumed \cup {chunkKey(msg.data.chunkId)}
                 /\ lastResult' =
                      [key |-> chunkKey(msg.data.chunkId),
                       loaded |-> chunkKey(msg.data.chunkId) \in DOMAIN loadedChunks]
            ELSE UNCHANGED <<loadedChunks, scene, physics, created, released, consumed,
                             lastResult>>
  /\ UNCHANGED <<worldSeed, probe, workerAlive, workerInbox, previousChunk, playerChunk,
                 updates, requested,
                 evicted, lastUnload, unloads, posted>>

\* this.worker.onmessage, while the worker runs
OnWorkerMessage ==
  /\ workerAlive
  /\ HandleMessage

\* dispose(): worker.terminate() drops what is queued in either direction
Dispose ==
  /\ workerAlive
  /\ workerAlive' = FALSE
  /\ workerInbox' = <<>>
  /\ managerInbox' = <<>>
  /\ SetResources(unloadEach(Resources, DOMAIN loadedChunks))
  /\ UNCHANGED <<worldSeed, probe, previousChunk, playerChunk, updates, requested, evicted,
                 consumed,
                 lastResult, lastUnload, unloads, posted>>

Next ==
  \/ \E p \in PlayerPositions : Update(p)
  \/ WorkerMessage
  \/ OnWorkerMessage

Spec == Init /\ [][Next]_vars

----------------------------------------------------------------------------
(* unloadChunk called on its own, with any key: the operation evict(key) *)

\* the keys evict is called with: loaded ones, unloaded ones, one never requested
EvictKeys == {"0,0", "-3,-3", "9,9"}

Evict(key) ==
  /\ unloads < MaxUnloads
  /\ unloads' = unloads + 1
  /\ SetResources(unloadChunk(Resources, key))
  /\ lastUnload' = [key |-> key, loaded |-> key \in DOMAIN loadedChunks]
  /\ UNCHANGED <<worldSeed, probe, workerAlive, workerInbox, managerInbox, previousChunk,
                 playerChunk, updates,
                 requested, evicted, consumed, lastResult, posted>>

NextEvict ==
  \/ UpdateWithin(CHOOSE p \in PlayerPositions : worldToChunk(p) = [x |-> 0, y |-> 0],
                 MaxEvictUpdates)
  \/ WorkerMessage
  \/ OnWorkerMessage
  \/ \E key \in EvictKeys : Evict(key)

SpecEvict == Init /\ [][NextEvict]_vars

----------------------------------------------------------------------------
(* dispose() at any moment of the streaming *)

\* the observer positions of SpecDispose: chunks (0,0) and (1,0)
DisposePositions == {p \in PlayerPositions : worldToChunk(p).x <= 1}

NextDispose ==
  \/ \E p \in DisposePositions : UpdateWithin(p, MaxDisposeUpdates)
  \/ WorkerMessage
  \/ OnWorkerMessage
  \/ Dispose

SpecDispose == Init /\ [][NextDispose]_vars

----------------------------------------------------------------------------
(* every operation of the manager: update, results, evict and dispose *)

NextLifecycle ==
  \/ \E p \in DisposePositions : UpdateWithin(p, MaxLifecycleUpdates)
  \/ WorkerMessage
  \/ Cardinality(consumed) < MaxLifecycleResults /\ OnWorkerMessage
  \/ \E key \in EvictKeys : Evict(key)
  \/ Dispose

SpecLifecycle == Init /\ [][NextLifecycle]_vars

----------------------------------------------------------------------------
(* main.ts: the Game around the manager, its seed change and its teardown *)

\* the seeds the seed input is set to: parseInt(value) || 12345
GameSeeds == {DefaultWorldSeed, 777}

\* what world.removeRigidBody does on a World that free() was called on: the
\* call returns without effect, or it throws
FreedWorldOutcomes == {"returns", "throws"}

\* the Game after init(): running, the physics world alive
GameInit ==
  /\ ManagerInit
  /\ probe = [isRunning |-> TRUE, worldFreed |-> FALSE, restarts |-> 0,
              removedWhenFreed |-> 0, outcome |-> "none"]

\* the number of handles in the physicsBodies lists of the chunks `keys`
RECURSIVE bodiesHeld(_, _)
bodiesHeld(loaded, keys) ==
  IF keys = {} THEN 0
  ELSE LET key == CHOOSE k \in keys : TRUE
       IN  loaded[key].physicsBodies + bodiesHeld(loaded, keys \ {key})

\* unloadChunk(key) up to a physics.removeBody call that throws: the meshes
\* are out of the scene, loadedChunks.delete(key) is not reached
unloadChunkThrowing(r, key) ==
  [r EXCEPT !.scene = SetCount(r.scene, key, Count(r.scene, key) - r.loaded[key].meshes)]

\* gameLoop: this.chunkManager.update(vehicleState.position)
GameLoop(playerPos) ==
  /\ probe.isRunning
  /\ UpdateWithin(playerPos, MaxGameUpdates)

\* restart(), from the seed input's change handler: chunkManager.dispose(),
\* then a new ChunkManager on the same scene and physics world
Restart ==
  /\ probe.isRunning
  /\ probe.restarts < MaxRestarts
  /\ \E newSeed \in GameSeeds \ {worldSeed} :
       /\ worldSeed' = newSeed
       /\ SetResources(unloadEach(Resources, DOMAIN loadedChunks))
       /\ workerAlive' = TRUE
       /\ workerInbox' = <<>>
       /\ managerInbox' = <<>>
       /\ probe' = [probe EXCEPT !.restarts = @ + 1]
  /\ UNCHANGED <<previousChunk, playerChunk, updates, requested, evicted, consumed,
                 lastResult, lastUnload, unloads, posted>>

\* dispose(), from beforeunload: isRunning = false, physics.dispose() frees the
\* world, then chunkManager.dispose() terminates the worker and unloads every
\* chunk, each unloadChunk calling physics.removeBody on the freed world. Where
\* that call throws, the first chunk visited stops the forEach (the Map's first
\* key in the code, any key here: the model keeps no insertion order)
GameDispose ==
  /\ probe.isRunning
  /\ workerAlive' = FALSE
  /\ workerInbox' = <<>>
  /\ managerInbox' = <<>>
  /\ \E outcome \in FreedWorldOutcomes :
       LET held == bodiesHeld(loadedChunks, DOMAIN loadedChunks)
       IN  IF outcome = "returns" \/ held = 0
           THEN /\ SetResources(unloadEach(Resources, DOMAIN loadedChunks))
                /\ probe' = [probe EXCEPT !.isRunning = FALSE, !.worldFreed = TRUE,
                                          !.removedWhenFreed = held,
                                          !.outcome = outcome]
           ELSE \E key \in DOMAIN loadedChunks :
                  /\ SetResources(unloadChunkThrowing(Resources, key))
                  /\ probe' = [probe EXCEPT !.isRunning = FALSE, !.worldFreed = TRUE,
                                            !.removedWhenFreed = 1,
                                            !.outcome = outcome]
  /\ UNCHANGED <<worldSeed, previousChunk, playerChunk, updates, requested, evicted,
                 consumed, lastResult, lastUnload, unloads, posted>>

NextGame ==
  \/ \E p \in DisposePositions : GameLoop(p)
  \/ WorkerMessage
  \/ OnWorkerMessage
  \/ Restart
  \/ GameDispose

SpecGame == GameInit /\ [][NextGame]_vars

----------------------------------------------------------------------------
(* dispose() with a result in flight, on a channel that delivers it *)

\* dispose() where the channel keeps the results the worker has posted already:
\* dispose() neither clears this.worker.onmessage nor records that it ran
DisposeInFlight ==
  /\ workerAlive
  /\ workerAlive' = FALSE
  /\ workerInbox' = <<>>
  /\ SetResources(unloadEach(Resources, DOMAIN loadedChunks))
  /\ UNCHANGED <<worldSeed, probe, managerInbox, previousChunk, playerChunk, updates,
                 requested, evicted, consumed, lastResult, lastUnload, unloads, posted>>

\* this.worker.onmessage, on a result delivered after dispose()
OnLateMessage ==
  /\ ~workerAlive
  /\ HandleMessage

NextLate ==
  \/ \E p \in DisposePositions : UpdateWithin(p, MaxLateUpdates)
  \/ WorkerMessage
  \/ OnWorkerMessage
  \/ DisposeInFlight
  \/ OnLateMessage

SpecLate == Init /\ [][NextLate]_vars

----------------------------------------------------------------------------
(* a collaborator that throws while loadChunkMeshes runs *)

\* loadChunkMeshes(data) when the collaborator call after the first `calls` calls
\* throws: the scene.add calls come first, then the createStaticBox calls; nothing
\* catches, so the statements after the throwing call, loadedChunks.set among them,
\* do not run
loadChunkMeshesThrows(r, data, calls) ==
  LET key == chunkKey(data.chunkId)
      added == IF calls < sceneAddCalls(data) THEN calls ELSE sceneAddCalls(data)
      boxes == calls - added
  IN  [loaded |-> r.loaded,
       scene |-> SetCount(r.scene, key, Count(r.scene, key) + added),
       physics |-> SetCount(r.physics, key, Count(r.physics, key) + boxes),
       created |-> [k \in DOMAIN r.created \cup {key} |->
                      IF k = key THEN calls ELSE r.created[k]],
       released |-> r.released]

\* the calls after which a collaborator throws: the first scene.add, the first
\* createStaticBox, the second createStaticBox
FailurePoints(data) == {0, sceneAddCalls(data), sceneAddCalls(data) + 1}

\* the chunks whose materialization a collaborator fails
FailingKeys == {"0,0", "3,3"}

\* onWorkerMessage(e) with a collaborator throwing in loadChunkMeshes: the exception
\* leaves the handler
OnWorkerMessageThrows ==
  /\ workerAlive
  /\ managerInbox # <<>>
  /\ LET msg == Head(managerInbox)
         key == chunkKey(msg.data.chunkId)
     IN  /\ msg.type = "chunk"
         /\ key \in FailingKeys
         /\ ~alreadyLoaded(key, loadedChunks)
         /\ \E calls \in FailurePoints(msg.data) :
              /\ calls < sceneAddCalls(msg.data) + createStaticBoxCalls(msg.data)
              /\ SetResources(loadChunkMeshesThrows(Resources, msg.data, calls))
              /\ lastResult' = [key |-> key, loaded |-> FALSE, failedAfter |-> calls]
         /\ managerInbox' = Tail(managerInbox)
         /\ consumed' = consumed \cup {key}
  /\ UNCHANGED <<worldSeed, probe, workerAlive, workerInbox, previousChunk, playerChunk,
                 updates, requested, evicted, lastUnload, unloads, posted>>

NextFailure ==
  \/ UpdateWithin(CHOOSE p \in PlayerPositions : worldToChunk(p) = [x |-> 0, y |-> 0],
                 MaxFailureUpdates)
  \/ WorkerMessage
  \/ OnWorkerMessage
  \/ OnWorkerMessageThrows

SpecFailure == Init /\ [][NextFailure]_vars

----------------------------------------------------------------------------
(* messages the worker of this repository never posts *)

\* an unknown type; type 'chunk' without data; data without chunkId
MalformedMessages ==
  { [type |-> "ready"],
    [type |-> "chunk"],
    [type |-> "chunk", data |-> [roads |-> <<>>, buildings |-> <<>>,
                                 collisionPrimitives |-> <<>>]] }

\* onWorkerMessage(e) throws a TypeError: loadChunkMeshes reads data.chunkId of an
\* undefined data, or chunkKey reads chunk.x of an undefined chunkId
onWorkerMessageThrows(msg) ==
  /\ msg.type = "chunk"
  /\ \/ "data" \notin DOMAIN msg
     \/ "chunkId" \notin DOMAIN msg.data

\* a malformed message arrives and onWorkerMessage(e) handles it: it returns at the
\* type test or throws before the has(key) test of loadChunkMeshes
OnMalformedMessage(msg) ==
  /\ workerAlive
  /\ lastResult' = [malformed |-> msg, raised |-> onWorkerMessageThrows(msg)]
  /\ UNCHANGED <<loadedChunks, worldSeed, probe, workerAlive, workerInbox, managerInbox,
                 scene, physics, previousChunk, playerChunk, updates, requested,
                 evicted, consumed, lastUnload, unloads, posted, created, released>>

NextProtocol ==
  \/ UpdateWithin(CHOOSE p \in PlayerPositions : worldToChunk(p) = [x |-> 0, y |-> 0],
                 MaxProtocolUpdates)
  \/ WorkerMessage
  \/ OnWorkerMessage
  \/ \E msg \in MalformedMessages : OnMalformedMessage(msg)

SpecProtocol == Init /\ [][NextProtocol]_vars

----------------------------------------------------------------------------
(* results delivered in any order *)

\* onWorkerMessage(e) on any of the results the worker has posted
OnWorkerMessageAt(i) ==
  /\ workerAlive
  /\ i \in DOMAIN managerInbox
  /\ i = 1 \/ Cardinality(consumed) < MaxReordered
  /\ LET msg == managerInbox[i]
     IN  /\ managerInbox' = SubSeq(managerInbox, 1, i - 1)
                              \o SubSeq(managerInbox, i + 1, Len(managerInbox))
         /\ msg.type = "chunk"
         /\ SetResources(loadChunkMeshes(Resources, msg.data))
         /\ consumed' = consumed \cup {chunkKey(msg.data.chunkId)}
         /\ lastResult' =
              [key |-> chunkKey(msg.data.chunkId),
               loaded |-> chunkKey(msg.data.chunkId) \in DOMAIN loadedChunks]
  /\ UNCHANGED <<worldSeed, probe, workerAlive, workerInbox, previousChunk, playerChunk,
                 updates, requested, evicted, lastUnload, unloads, posted>>

NextReorder ==
  \/ UpdateWithin(CHOOSE p \in PlayerPositions : worldToChunk(p) = [x |-> 0, y |-> 0],
                 MaxReorderUpdates)
  \/ WorkerMessageWithin(MaxReorderResults)
  \/ \E i \in 1..MaxReorderResults : OnWorkerMessageAt(i)

SpecReorder == Init /\ [][NextReorder]_vars

----------------------------------------------------------------------------
(* the observer stays in one chunk, update() is called for ever and every request is
   answered *)

Smaller(a, b) == IF a < b THEN a ELSE b

\* update(playerPos) in the chunk of the first update(), called when every request
\* posted so far has been answered and its result handled; the counters of the
\* history stop at their bounds
UpdateStaying(playerPos) ==
  /\ playerChunk = NoChunk \/ playerChunk = worldToChunk(playerPos)
  /\ workerInbox = <<>>
  /\ managerInbox = <<>>
  /\ \E center \in {worldToChunk(playerPos)} :
       \E chunks \in {chunksToRequest(center, loadedChunks)} :
         \E toUnload \in {keysToUnload(center, loadedChunks)} :
           \E r \in {unloadEach(Resources, toUnload)} :
             /\ workerInbox' = postAll([i \in 1..Len(chunks) |->
                                          requestMessage(chunks[i], worldSeed)])
             /\ SetResources(r)
             /\ previousChunk' = playerChunk
             /\ playerChunk' = center
             /\ requested' = [i \in 1..Len(chunks) |-> chunkKey(chunks[i])]
             /\ evicted' = toUnload
             /\ posted' = Smaller(posted + Len(chunks), MaxPosted)
             /\ updates' = Smaller(updates + 1, MaxUpdates)
  /\ UNCHANGED <<worldSeed, probe, workerAlive, managerInbox, consumed, lastResult,
                 lastUnload, unloads>>

NextStaying ==
  \/ \E p \in PlayerPositions : UpdateStaying(p)
  \/ WorkerMessage
  \/ OnWorkerMessage

\* the game loop calls update() every frame; the worker and the main thread handle
\* every message posted to them
SpecStaying ==
  /\ Init
  /\ [][NextStaying]_vars
  /\ WF_vars(\E p \in PlayerPositions : UpdateStaying(p))
  /\ WF_vars(WorkerMessage)
  /\ WF_vars(OnWorkerMessage)

----------------------------------------------------------------------------
(* The worker on its own: generateChunk called again and again, in any order *)

InitGenerate ==
  /\ ManagerInit
  /\ probe = [log |-> <<>>, left |-> NoProbe, results |-> EmptyMap]

\* self.onmessage for one 'generate' request. probe.log lists the requests in
\* the order handled, probe.results holds for each the set of ChunkData posted
\* back for it, probe.left the generator the latest call left behind.
Generate(chunkId, seedOfWorld) ==
  /\ "log" \in DOMAIN probe
  /\ Len(probe.log) < MaxGenerations
  /\ \E input \in {[chunkId |-> chunkId, worldSeed |-> seedOfWorld]} :
     \E chunk \in {generateChunkAfter(probe.left, chunkId, seedOfWorld)} :
       probe' = [log |-> Append(probe.log, input),
                 left |-> chunk.rng,
                 results |->
                   [k \in DOMAIN probe.results \cup {input} |->
                      IF k = input
                      THEN (IF input \in DOMAIN probe.results
                            THEN probe.results[input] ELSE {}) \cup {chunk.data}
                      ELSE probe.results[k]]]
  /\ UNCHANGED managerVars

NextGenerate == \E chunkId \in GenerateChunkIds : \E seedOfWorld \in GenerateSeeds :
                  Generate(chunkId, seedOfWorld)

SpecGenerate == InitGenerate /\ [][NextGenerate]_vars

----------------------------------------------------------------------------
(* worldToChunk called on its own *)

\* x and z of the positions: the chunk borders around the origin and their
\* neighbours on both sides
BorderCoordinates ==
  UNION {{(k * CHUNK_SIZE) - 1, k * CHUNK_SIZE, (k * CHUNK_SIZE) + 1} : k \in -2..2}

\* y of the positions: the height of the vehicle, the ground, below the ground
Heights == {2, 0, -7}

InitPosition ==
  /\ ManagerInit
  /\ probe \in [worldPos : [x : BorderCoordinates, y : Heights, z : BorderCoordinates],
                chunk : {NoProbe}]

\* const playerChunk = worldToChunk(playerPos)
WorldToChunk ==
  /\ "worldPos" \in DOMAIN probe
  /\ probe.chunk = NoProbe
  /\ probe' = [probe EXCEPT !.chunk = worldToChunk(probe.worldPos)]
  /\ UNCHANGED managerVars

NextPosition == WorldToChunk

SpecPosition == InitPosition /\ [][NextPosition]_vars

----------------------------------------------------------------------------
(* hashChunk called on its own *)

\* world seeds as 32-bit patterns: 0, 1, the default, 2^31 - 1, 2^31,
\* 0xdeadbeef and 2^32 - 1
HashSeeds ==
  { <<0, 0>>, <<0, 1>>, ToU32(DefaultWorldSeed), <<32767, 65535>>, <<32768, 0>>,
    <<57005, 48879>>, <<65535, 65535>> }

\* chunk coordinates: the ends of the i32 range, and small ones of both signs
HashCoordinates == { (-2147483647) - 1, -65536, -3, -1, 0, 1, 7, 65535, 2147483647 }

InitHash ==
  /\ ManagerInit
  /\ probe \in [worldSeed : HashSeeds, chunkX : HashCoordinates,
                chunkY : HashCoordinates, returned : {NoProbe}]

\* one call hashChunk(worldSeed, chunkX, chunkY)
HashChunk ==
  /\ "chunkX" \in DOMAIN probe
  /\ probe.returned = NoProbe
  /\ probe' = [probe EXCEPT
                 !.returned = hashChunkOf(probe.worldSeed, probe.chunkX, probe.chunkY)]
  /\ UNCHANGED managerVars

NextHash == HashChunk

SpecHash == InitHash /\ [][NextHash]_vars

----------------------------------------------------------------------------
(* one SeededRNG called on its own *)

\* seeds as 32-bit patterns: 0, the hash of chunk (0, 0) and of chunk (-3, 2)
\* under the default world seed, 2^31, 0xdeadbeef and 2^32 - 1
RngSeeds ==
  { <<0, 0>>, hashChunk(DefaultWorldSeed, 0, 0), hashChunk(DefaultWorldSeed, -3, 2),
    <<32768, 0>>, <<57005, 48879>>, <<65535, 65535>> }

\* the (min, max) pairs nextInt and nextFloat are called with: those of the
\* worker that are integers, and one with a negative min
RngRanges == { <<1, 4>>, <<0, 5>>, <<8, 20>>, <<20, 60>>, <<6, 15>>, <<-3, 3>> }

\* new SeededRNG(seed)
InitRng ==
  /\ ManagerInit
  /\ \E seed \in RngSeeds :
       probe = [seed |-> seed, rng |-> SeededRNG(seed), calls |-> 0, last |-> NoProbe]

\* the bookkeeping of one call: what was called, with what, what it returned
Called(op, range, result) ==
  /\ "rng" \in DOMAIN probe
  /\ probe.calls < MaxCalls
  /\ probe' = [probe EXCEPT
                 !.rng = result.rng,
                 !.calls = probe.calls + 1,
                 !.last = [op |-> op, min |-> range[1], max |-> range[2],
                           value |-> result.value]]
  /\ UNCHANGED managerVars

CallNext == \E result \in {rngNext(probe.rng)} : Called("next", <<0, 1>>, result)

CallNextInt(range) ==
  \E result \in {rngNextInt(probe.rng, range[1], range[2])} :
    Called("nextInt", range, result)

CallNextFloat(range) ==
  \E result \in {rngNextFloat(probe.rng, range[1], range[2])} :
    Called("nextFloat", range, result)

CallNextBool == \E result \in {rngNextBool(probe.rng)} : Called("nextBool", <<0, 1>>, result)

NextRng ==
  \/ CallNext
  \/ \E range \in RngRanges : CallNextInt(range)
  \/ \E range \in RngRanges : CallNextFloat(range)
  \/ CallNextBool

SpecRng == InitRng /\ [][NextRng]_vars

----------------------------------------------------------------------------
(* results carrying any ChunkData of the data model (types.ts) *)

\* CollisionPrimitive.type
PrimitiveTypes == {"box", "capsule"}

PrimitiveChunkIds == { [x |-> 0, y |-> 0], [x |-> 1, y |-> 0], [x |-> 0, y |-> -1] }

\* lists of at most MaxPrimitives primitives, each by its type
PrimitiveLists == UNION {[1..n -> PrimitiveTypes] : n \in 0..MaxPrimitives}

\* onWorkerMessage for a 'chunk' message whose data is the generated chunk with
\* its collision primitives replaced by `primitives`
OnChunkData(chunkId, primitives) ==
  /\ workerAlive
  /\ LET data == [generateChunk(chunkId, worldSeed) EXCEPT
                    !.collisionPrimitives = primitives]
     IN  /\ SetResources(loadChunkMeshes(Resources, data))
         /\ consumed' = consumed \cup {chunkKey(chunkId)}
         /\ lastResult' = [key |-> chunkKey(chunkId),
                           loaded |-> chunkKey(chunkId) \in DOMAIN loadedChunks]
  /\ UNCHANGED <<worldSeed, probe, workerAlive, workerInbox, managerInbox, previousChunk,
                 playerChunk, updates, requested, evicted, lastUnload, unloads, posted>>

NextPrimitives ==
  \E chunkId \in PrimitiveChunkIds : \E primitives \in PrimitiveLists :
    OnChunkData(chunkId, primitives)

SpecPrimitives == Init /\ [][NextPrimitives]_vars

----------------------------------------------------------------------------
(* the building loop of generateChunk on its own, for any outcome of the generator *)

\* the blocks looked at, by loop index b (bx = b \div numRoads, by = b % numRoads):
\* the four corner blocks of the chunk
BuildingBlocks == {0, numRoads - 1, numRoads * (numRoads - 1), (numRoads * numRoads) - 1}

BuildingChunkIds == { [x |-> 0, y |-> 0], [x |-> -3, y |-> 2] }

\* the numerators a nextFloat call can read: the least, the greatest, one between
DrawOutcomes == { <<0, 0>>, <<32768, 1>>, <<65535, 65535>> }

Archetypes == {"residential", "office", "industrial"}

\* what nextInt(1, 4) can return
BuildingCounts == {n \in 0..4 : \E u \in DrawOutcomes : ScaleFloor(u, 4 - 1) + 1 = n}

\* a block is entered: its archetype and numBuildings are fixed, the lists hold
\* nothing of it yet. draws are the numerators each pass of the loop reads.
InitBuilding ==
  /\ ManagerInit
  /\ \E chunkId \in BuildingChunkIds, b \in BuildingBlocks, n \in BuildingCounts,
        archetype \in Archetypes, draws \in [1..CallsPerBuilding -> DrawOutcomes] :
       probe = [chunkId |-> chunkId, b |-> b, numBuildings |-> n,
                archetype |-> archetype, draws |-> draws,
                placed |-> <<>>, buildings |-> <<>>, collisionPrimitives |-> <<>>]

\* one pass of the building loop: i is the number of passes made before
PlaceBuilding ==
  /\ "placed" \in DOMAIN probe
  /\ Len(probe.placed) < probe.numBuildings
  /\ LET blockX == (probe.chunkId.x * CHUNK_SIZE)
                   + ((probe.b \div numRoads) * BLOCK_SIZE) + ROAD_WIDTH
         blockY == (probe.chunkId.y * CHUNK_SIZE)
                   + ((probe.b % numRoads) * BLOCK_SIZE) + ROAD_WIDTH
     IN  \E pass \in {placeBuilding(blockX, blockY, probe.numBuildings,
                                    Len(probe.placed), probe.archetype, probe.draws)} :
           probe' = [probe EXCEPT
                       !.placed = Append(@, [row |-> pass.row, col |-> pass.col]),
                       !.buildings = Append(@, pass.building),
                       !.collisionPrimitives = Append(@, pass.primitive)]
  /\ UNCHANGED managerVars

NextBuilding == PlaceBuilding

SpecBuilding == InitBuilding /\ [][NextBuilding]_vars

----------------------------------------------------------------------------
(* Properties of the chunk manager *)

Abs(n) == IF n < 0 THEN 0 - n ELSE n

Chebyshev(a, b) ==
  IF Abs(a.x - b.x) > Abs(a.y - b.y) THEN Abs(a.x - b.x) ELSE Abs(a.y - b.y)

SquaredDistance(a, b) == ((a.x - b.x) * (a.x - b.x)) + ((a.y - b.y) * (a.y - b.y))

Origin == [x |-> 0, y |-> 0]

\* every chunk an update() of the model can request, and a margin around them
ChunkBox ==
  {[x |-> i, y |-> j] : i \in (MinChunkX - 1)..(MaxChunkX + 1),
                        j \in (MinChunkY - 1)..(MaxChunkY + 1)}

\* the step is a call of update()
UpdateStep == updates' = updates + 1

\* the step is onWorkerMessage handling a generated chunk
ResultStep ==
  /\ managerInbox # <<>>
  /\ managerInbox' = Tail(managerInbox)
  /\ Head(managerInbox).type = "chunk"

\* the chunk of the result a ResultStep handles
ResultChunk == Head(managerInbox).data.chunkId

\* the messages a step posts to the worker
Dispatched == SubSeq(workerInbox', Len(workerInbox) + 1, Len(workerInbox'))

Resident(chunk) == chunkKey(chunk) \in DOMAIN loadedChunks

ResidentAfter(chunk) == chunkKey(chunk) \in DOMAIN loadedChunks'

\* C1: a result handled for a chunk outside the load neighbourhood of the observer
\* chunk of the latest update() creates no mesh, no body and no loaded entry.
StaleResultDiscarded ==
  [][(ResultStep /\ updates > 0 /\ Chebyshev(ResultChunk, playerChunk) > loadRadius)
       => UNCHANGED <<loadedChunks, scene, physics>>]_vars

\* C2, as stated: of the results handled for one key only the first creates
\* resources; a result for a key that a result was handled for before changes neither
\* the loaded chunks nor the live meshes and bodies.
OnlyFirstResultCreates ==
  [][(ResultStep /\ chunkKey(ResultChunk) \in consumed)
       => UNCHANGED <<loadedChunks, scene, physics>>]_vars

\* C2, amended: a result handled while its key is loaded changes neither the loaded
\* chunks nor the live meshes and bodies, and after any result the live meshes and
\* bodies under its key are those of one LoadedChunk.
ResidentResultIgnored ==
  [][ResultStep =>
       /\ Resident(ResultChunk) => UNCHANGED <<loadedChunks, scene, physics>>
       /\ ResidentAfter(ResultChunk)
       /\ Count(scene', chunkKey(ResultChunk))
            = loadedChunks'[chunkKey(ResultChunk)].meshes
       /\ Count(physics', chunkKey(ResultChunk))
            = loadedChunks'[chunkKey(ResultChunk)].physicsBodies]_vars

\* a second result for a key arrived while the key was loaded, with other chunks loaded
DuplicateResultHandled ==
  /\ "key" \in DOMAIN lastResult
  /\ lastResult.loaded
  /\ lastResult.key \in DOMAIN loadedChunks
  /\ Cardinality(DOMAIN loadedChunks) > 1

\* C3: update() unloads no loaded chunk within Chebyshev distance loadRadius of the
\* observer chunk.
DesiredNeverEvicted ==
  [][UpdateStep =>
       \A c \in ChunkBox :
         (Resident(c) /\ Chebyshev(c, playerChunk') <= loadRadius)
           => ResidentAfter(c)]_vars

\* C4: update() posts one generate message, carrying the world seed, for each chunk
\* within Chebyshev distance loadRadius of the observer chunk that is not loaded,
\* and no other message: (2 * loadRadius + 1)^2 messages when nothing is loaded.
LoadSetIsTheSquare ==
  [][UpdateStep =>
       LET wanted == {c \in ChunkBox :
                        Chebyshev(c, playerChunk') <= loadRadius /\ ~Resident(c)}
       IN  /\ workerInbox = SubSeq(workerInbox', 1, Len(workerInbox))
           /\ Len(Dispatched) = Cardinality(wanted)
           /\ {Dispatched[i].chunkId : i \in DOMAIN Dispatched} = wanted
           /\ \A i \in DOMAIN Dispatched :
                Dispatched[i].type = "generate" /\ Dispatched[i].worldSeed = worldSeed
           /\ loadedChunks = EmptyMap =>
                Len(Dispatched) = ((2 * loadRadius) + 1) * ((2 * loadRadius) + 1)]_vars

\* the first update(), at the origin, has posted the 49 requests of the square
FirstUpdateRequests49 ==
  /\ updates = 1
  /\ playerChunk = Origin
  /\ Len(workerInbox) = 49
  /\ {workerInbox[i].chunkId : i \in DOMAIN workerInbox}
       = {c \in ChunkBox : Chebyshev(c, Origin) <= 3}

\* C5: update() unloads a loaded chunk if and only if its Euclidean distance from the
\* observer chunk is greater than loadRadius + 1; from the origin, chunk (4,0) stays
\* loaded and chunk (5,0) is unloaded.
EvictionRule ==
  [][UpdateStep =>
       /\ DOMAIN loadedChunks \subseteq {chunkKey(c) : c \in ChunkBox}
       /\ DOMAIN loadedChunks' \subseteq DOMAIN loadedChunks
       /\ \A c \in ChunkBox :
            Resident(c) =>
              (~ResidentAfter(c)
                 <=> SquaredDistance(c, playerChunk')
                       > (loadRadius + 1) * (loadRadius + 1))
       /\ (playerChunk' = Origin /\ "4,0" \in DOMAIN loadedChunks)
            => "4,0" \in DOMAIN loadedChunks'
       /\ (playerChunk' = Origin /\ "5,0" \in DOMAIN loadedChunks)
            => "5,0" \notin DOMAIN loadedChunks']_vars

\* an update() at the origin kept chunk (4,0) and unloaded chunk (5,0)
BoundaryChunksSeparated ==
  /\ playerChunk = Origin
  /\ "4,0" \in DOMAIN loadedChunks
  /\ "5,0" \in evicted
  /\ "5,0" \notin DOMAIN loadedChunks

\* C6: when the observer steps from chunk A to the adjacent chunk B and back to A,
\* the update() at A requests no chunk that the update() at B unloaded.
NoEvictThenRequest ==
  [][(UpdateStep /\ updates >= 2 /\ playerChunk' = previousChunk
        /\ Chebyshev(playerChunk, playerChunk') = 1)
       => \A i \in DOMAIN Dispatched :
            chunkKey(Dispatched[i].chunkId) \notin evicted]_vars

\* C7: update() posts no request for a key that is loaded.
ResidentNeverRequested ==
  [][UpdateStep =>
       \A i \in DOMAIN Dispatched :
         /\ Dispatched[i].type = "generate"
         /\ chunkKey(Dispatched[i].chunkId) \notin DOMAIN loadedChunks]_vars

\* an update() found part of its square loaded and requested the rest
PartOfSquareRequested ==
  /\ updates >= 2
  /\ Len(requested) > 0
  /\ Len(requested) < 49
  /\ \E c \in ChunkBox : Chebyshev(c, playerChunk) <= loadRadius /\ Resident(c)

\* C8: for every chunk unloaded, the scene.add and createStaticBox calls that made it
\* are as many as the scene.remove and removeBody calls that unloaded it.
ResourceSymmetry ==
  \A key \in DOMAIN released : released[key].creates = released[key].removes

\* a chunk with meshes and bodies has been unloaded
ChunkReleased ==
  \E key \in DOMAIN released :
    released[key].creates > 1 /\ key \notin DOMAIN loadedChunks

\* C9: between operations, every loaded key has all its meshes in the scene and all
\* its bodies in the physics world, and no other key has a mesh or a body left.
AtomicEviction ==
  /\ \A key \in DOMAIN loadedChunks :
       /\ Count(scene, key) = loadedChunks[key].meshes
       /\ Count(physics, key) = loadedChunks[key].physicsBodies
  /\ DOMAIN scene \subseteq DOMAIN loadedChunks
  /\ DOMAIN physics \subseteq DOMAIN loadedChunks

\* an update() unloaded chunks that held bodies, and left others loaded
SomeEvictedSomeKept ==
  /\ \E key \in evicted : key \in DOMAIN released /\ released[key].removes > 1
  /\ \E key \in DOMAIN loadedChunks : Count(physics, key) > 0

\* C10: unloadChunk with a key that is not loaded removes no mesh and no body and
\* leaves the loaded chunks as they are; after unloadChunk the key is not loaded.
EvictAbsentIsNoOp ==
  [][(unloads' = unloads + 1) =>
       /\ ~lastUnload'.loaded
            => UNCHANGED <<loadedChunks, scene, physics, created, released>>
       /\ lastUnload'.key \notin DOMAIN loadedChunks'
       /\ Count(scene', lastUnload'.key) = 0
       /\ Count(physics', lastUnload'.key) = 0]_vars

\* unloadChunk was called with a key an update() had unloaded before, while other
\* chunks were loaded
EvictedTwice ==
  /\ unloads > 0
  /\ ~lastUnload.loaded
  /\ lastUnload.key \in evicted
  /\ loadedChunks # EmptyMap

\* C11: once dispose() has returned the worker is terminated, nothing it was sent or
\* had answered is pending, no chunk is loaded, no mesh and no body of the manager is
\* live, and every chunk ever materialized was unloaded with as many remove calls as
\* it had create calls.
DisposeReleasesAll ==
  ~workerAlive =>
    /\ loadedChunks = EmptyMap
    /\ scene = EmptyMap
    /\ physics = EmptyMap
    /\ workerInbox = <<>>
    /\ managerInbox = <<>>
    /\ \A key \in DOMAIN created :
         /\ key \in DOMAIN released
         /\ released[key].creates = created[key]
         /\ released[key].removes = created[key]

\* dispose() ran after one update(), with chunks loaded and requests unanswered
DisposedWhileStreaming ==
  /\ ~workerAlive
  /\ updates = 1
  /\ Cardinality(DOMAIN released) > 1
  /\ Cardinality(consumed) < posted

\* the keys of the requests dispatched and not yet answered by a handled result, in
\* the order of their dispatch
Outstanding ==
  [i \in 1..Len(managerInbox) |-> chunkKey(managerInbox[i].data.chunkId)]
    \o [i \in 1..Len(workerInbox) |-> chunkKey(workerInbox[i].chunkId)]

\* C12: at any time at most one request per chunk key is outstanding, and no more
\* requests are outstanding than the load neighbourhood has chunks.
OneOutstandingPerKey ==
  /\ \A i, j \in DOMAIN Outstanding : Outstanding[i] = Outstanding[j] => i = j
  /\ Len(Outstanding) <= ((2 * loadRadius) + 1) * ((2 * loadRadius) + 1)

\* the step is onWorkerMessage with a collaborator throwing in loadChunkMeshes
FailureStep ==
  /\ managerInbox # <<>>
  /\ managerInbox' = Tail(managerInbox)
  /\ "failedAfter" \in DOMAIN lastResult'

\* C13: a materialization that fails leaves the key not loaded, no mesh and no body
\* of the attempt live, and every other loaded chunk as it was.
FailedMaterializationLeavesNothing ==
  [][FailureStep =>
       /\ ~ResidentAfter(ResultChunk)
       /\ UNCHANGED <<loadedChunks, scene, physics>>]_vars

\* the step is onWorkerMessage handling a malformed message
MalformedStep == "raised" \in DOMAIN lastResult' /\ lastResult' # lastResult

\* C14: handling a malformed message raises nothing out of onWorkerMessage and
\* changes neither the loaded chunks nor the live meshes and bodies.
MalformedMessageDropped ==
  [][MalformedStep =>
       /\ ~lastResult'.raised
       /\ UNCHANGED <<loadedChunks, scene, physics>>]_vars

\* the loaded chunks and the live meshes and bodies of a resources record
Live(r) == <<r.loaded, r.scene, r.physics>>

\* C15: any two results waiting for the manager leave the same loaded chunks and the
\* same live meshes and bodies in either order of handling, and whatever the order
\* so far, the live meshes and bodies are those of the loaded chunks, key by key.
ResultsCommute ==
  /\ \A i, j \in DOMAIN managerInbox :
       Live(loadChunkMeshes(loadChunkMeshes(Resources, managerInbox[i].data),
                            managerInbox[j].data))
         = Live(loadChunkMeshes(loadChunkMeshes(Resources, managerInbox[j].data),
                                managerInbox[i].data))
  /\ \A key \in DOMAIN loadedChunks :
       /\ scene[key] = loadedChunks[key].meshes
       /\ Count(physics, key) = loadedChunks[key].physicsBodies
  /\ DOMAIN scene \cup DOMAIN physics \subseteq DOMAIN loadedChunks

\* a result was handled before the result of an earlier request, and two results for
\* different chunks, neither loaded, wait for the manager
HandledOutOfOrder ==
  /\ updates = 1
  /\ "-3,-2" \in DOMAIN loadedChunks
  /\ "-3,-3" \notin consumed
  /\ Len(managerInbox) = 2
  /\ Cardinality({chunkKey(managerInbox[i].data.chunkId) : i \in {1, 2}}
                   \ DOMAIN loadedChunks) = 2

\* every chunk within Chebyshev distance loadRadius of the observer chunk is loaded
SquareResident ==
  /\ updates > 0
  /\ \A c \in ChunkBox : Chebyshev(c, playerChunk) <= loadRadius => Resident(c)

\* C16: with the observer staying in one chunk, update() called for ever and every
\* request answered, eventually every chunk of the square around the observer chunk
\* is loaded and stays loaded.
Converges == <>[]SquareResident

----------------------------------------------------------------------------
(* Properties of the worker and of the seeded generator *)

\* C17: whatever was generated before or in between, every call of generateChunk
\* for the same worldSeed and chunkId returned the same ChunkData: the same
\* roads, buildings (heights and archetypes by what they are computed from) and
\* collision primitives, in the same order.
SameInputSameChunk ==
  "results" \in DOMAIN probe
    => \A input \in DOMAIN probe.results : Cardinality(probe.results[input]) = 1

\* a chunk was generated, then another one, then the first again
GeneratedAgainAfterAnother ==
  /\ "log" \in DOMAIN probe
  /\ Len(probe.log) = 3
  /\ probe.log[1] = probe.log[3]
  /\ probe.log[2] # probe.log[1]
  /\ Len((CHOOSE d \in probe.results[probe.log[1]] : TRUE).buildings) > 0

\* 32-bit words as sequences of 32 bits, least significant first
RECURSIVE BitsOfNat(_, _)
BitsOfNat(n, width) ==
  IF width = 0 THEN <<>> ELSE <<n % 2>> \o BitsOfNat(n \div 2, width - 1)

WordOfHalves(a) == BitsOfNat(a[2], 16) \o BitsOfNat(a[1], 16)

\* the two's-complement pattern of an i32: for x < 0 the complement of -(x + 1)
WordOfInt32(x) ==
  IF x >= 0 THEN BitsOfNat(x, 32)
  ELSE [i \in 1..32 |-> 1 - BitsOfNat(-(x + 1), 32)[i]]

WordXor(a, b) == [i \in 1..32 |-> (a[i] + b[i]) % 2]

WordOr(a, b) == [i \in 1..32 |-> IF a[i] + b[i] > 0 THEN 1 ELSE 0]

\* a >>> s: zeros enter at the top
WordShr(a, s) == [i \in 1..32 |-> IF i + s <= 32 THEN a[i + s] ELSE 0]

\* a << s, truncated to 32 bits
WordShl(a, s) == [i \in 1..32 |-> IF i - s >= 1 THEN a[i - s] ELSE 0]

\* (a + b) mod 2^32 by ripple carry from bit i on
RECURSIVE WordAddFrom(_, _, _, _)
WordAddFrom(a, b, i, carry) ==
  IF i > 32 THEN <<>>
  ELSE <<(a[i] + b[i] + carry) % 2>>
       \o WordAddFrom(a, b, i + 1, (a[i] + b[i] + carry) \div 2)

WordAdd(a, b) == WordAddFrom(a, b, 1, 0)

\* mul32: shift and add over the bits of b from bit i on, truncated to 32 bits
RECURSIVE WordMulFrom(_, _, _, _)
WordMulFrom(a, b, i, sum) ==
  IF i > 32 \/ Len(sum) # 32 THEN sum
  ELSE WordMulFrom(a, b, i + 1,
                   IF b[i] = 1 THEN WordAdd(WordShl(a, i - 1), sum) ELSE sum)

WordMul(a, b) == WordMulFrom(a, b, 1, BitsOfNat(0, 32))

\* the algorithm of the hash as specified, on words
SpecifiedHash(seedWord, chunkX, chunkY) ==
  LET h1 == WordMul(WordXor(seedWord, WordOfInt32(chunkX)), WordOfHalves(HashMulX))
      h2 == WordMul(WordXor(h1, WordOfInt32(chunkY)), WordOfHalves(HashMulY))
  IN  WordXor(h2, WordShr(h2, 13))

\* C18: for every u32 seed and i32 coordinates hashChunk returns the value of
\* h = mul32(seed xor x, 0x85ebca6b); h = mul32(h xor y, 0xc2b2ae35);
\* h xor (h >>> 13), with negative coordinates as two's-complement patterns and
\* a zero-filling shift; the result is a number in [0, 2^32).
HashChunkAsSpecified ==
  ("chunkX" \in DOMAIN probe /\ probe.returned # NoProbe)
    => /\ probe.returned[1] \in 0..(Half - 1)
       /\ probe.returned[2] \in 0..(Half - 1)
       /\ WordOfHalves(probe.returned)
            = SpecifiedHash(WordOfHalves(probe.worldSeed), probe.chunkX, probe.chunkY)

\* hashChunk returned for a seed above 2^31, a negative coordinate, and a product
\* whose top bit is set (where `>>` and `>>>` part)
HashedNegativeCoordinate ==
  /\ "chunkX" \in DOMAIN probe
  /\ probe.returned # NoProbe
  /\ probe.worldSeed[1] >= Pow2(15)
  /\ probe.chunkX < 0
  /\ probe.chunkY < 0
  /\ probe.returned # hashChunkSignExtending(probe.worldSeed, probe.chunkX, probe.chunkY)

\* 0x6d2b79f5 as a word
IncrementWord == WordOfHalves(RngIncrement)

\* the state of the specified generator after n calls on seedWord
RECURSIVE SpecifiedState(_, _)
SpecifiedState(seedWord, n) ==
  IF n = 0 THEN seedWord ELSE WordAdd(SpecifiedState(seedWord, n - 1), IncrementWord)

\* the numerator the specified next() returns on the state word it advanced to
SpecifiedOutput(stateWord) ==
  LET t1 == WordMul(WordXor(stateWord, WordShr(stateWord, 15)),
                    WordOr(stateWord, BitsOfNat(1, 32)))
      t2 == WordXor(t1, WordMul(WordXor(t1, WordShr(t1, 7)), WordOr(t1, BitsOfNat(61, 32))))
  IN  WordXor(t2, WordShr(t2, 14))

\* C19: after every call of next(), whatever the seed and the number of calls
\* before, the state is the seed advanced by 0x6d2b79f5 modulo 2^32 once per
\* call and is a u32, and the value returned is the numerator
\* t = mul32(t xor (t >>> 15), t or 1); t = t xor mul32(t xor (t >>> 7), t or 61);
\* t xor (t >>> 14) over 2^32, a value in [0, 1).
NextAsSpecified ==
  ("rng" \in DOMAIN probe /\ probe.last # NoProbe /\ probe.last.op = "next")
    => /\ probe.rng.ovf = 0
       /\ WordOfHalves(probe.rng.bits)
            = SpecifiedState(WordOfHalves(probe.seed), probe.calls)
       /\ probe.last.value[1] \in 0..(Half - 1)
       /\ probe.last.value[2] \in 0..(Half - 1)
       /\ WordOfHalves(probe.last.value)
            = SpecifiedOutput(SpecifiedState(WordOfHalves(probe.seed), probe.calls))

\* a call of nextInt, nextFloat or nextBool
DerivedCall ==
  /\ "rng" \in DOMAIN probe
  /\ probe'.calls = probe.calls + 1
  /\ probe'.last.op \in {"nextInt", "nextFloat", "nextBool"}

\* C20: a call of nextInt, nextFloat or nextBool advances the generator exactly
\* as one call of next() does, so the n-th call on a generator reads the n-th
\* value of the next() sequence of its seed; nextInt(min, max) returns an
\* integer in [min, max) and nextFloat(min, max) a value in [min, max).
OneDrawPerDerivedCall ==
  [][DerivedCall =>
       LET nth == rngNext(rngSkip(SeededRNG(probe.seed), probe.calls))
           call == probe'.last
       IN  /\ probe'.rng = rngNext(probe.rng).rng
           /\ probe'.rng = nth.rng
           /\ call.op = "nextInt"
                => /\ call.value \in call.min..(call.max - 1)
                   /\ call.value = ScaleFloor(nth.value, call.max - call.min) + call.min
           /\ call.op = "nextFloat"
                => /\ call.value.whole \in call.min..(call.max - 1)
                   /\ call.value.rest = ScaleRest(nth.value, call.max - call.min)
                   /\ call.value.whole
                        = ScaleFloor(nth.value, call.max - call.min) + call.min
           /\ call.op = "nextBool" => call.value = (nth.value[1] < Pow2(15))]_vars

\* the third or a later call on one generator was a nextInt that read a value
\* in the lower half and returned more than min
DerivedCallsMixed ==
  /\ "rng" \in DOMAIN probe
  /\ probe.calls >= 3
  /\ probe.last # NoProbe
  /\ probe.last.op = "nextInt"
  /\ probe.last.value > probe.last.min
  /\ rngOutput(probe.rng)[1] < Pow2(15)

\* every ChunkData the worker returned so far
Generated ==
  IF "results" \in DOMAIN probe
  THEN UNION {probe.results[input] : input \in DOMAIN probe.results}
  ELSE {}

\* the world origin of a chunk
OriginOf(chunkId) == [x |-> chunkId.x * CHUNK_SIZE, y |-> chunkId.y * CHUNK_SIZE]

\* ceil(CHUNK_SIZE / BLOCK_SIZE) + 1
GridLines == ((CHUNK_SIZE + BLOCK_SIZE - 1) \div BLOCK_SIZE) + 1

\* C21: every generated chunk, negative coordinates included, has
\* ceil(CHUNK_SIZE / BLOCK_SIZE) + 1 = 5 horizontal roads followed by as many
\* vertical ones; road i of each direction is a two-point segment on grid line
\* i * BLOCK_SIZE from the chunk origin that spans the whole chunk, its end
\* points lie on multiples of BLOCK_SIZE from the origin, and it is primary for
\* even i, secondary for odd i.
RoadGrid ==
  \A data \in Generated :
    LET origin == OriginOf(data.chunkId)
    IN  /\ GridLines = 5
        /\ Len(data.roads) = 2 * GridLines
        /\ \A k \in 1..Len(data.roads) :
             LET road == data.roads[k]
                 i == (k - 1) % GridLines
                 from == road.segments[1]
                 to == road.segments[2]
             IN  /\ Len(road.segments) = 2
                 /\ road.type = (IF i % 2 = 0 THEN "primary" ELSE "secondary")
                 /\ \A p \in {from, to} : /\ (p.x - origin.x) % BLOCK_SIZE = 0
                                          /\ (p.y - origin.y) % BLOCK_SIZE = 0
                 /\ IF k <= GridLines
                    THEN /\ from = [x |-> origin.x, y |-> origin.y + (i * BLOCK_SIZE)]
                         /\ to = [x |-> origin.x + CHUNK_SIZE, y |-> from.y]
                    ELSE /\ from = [x |-> origin.x + (i * BLOCK_SIZE), y |-> origin.y]
                         /\ to = [x |-> from.x, y |-> origin.y + CHUNK_SIZE]

\* a chunk with negative coordinates was generated
NegativeChunkHasRoads ==
  \E data \in Generated : /\ data.chunkId.x < 0
                          /\ Len(data.roads) > 0
                          /\ data.roads[1].segments[1].x < 0

\* a length is at least n world units
FxAtLeast(a, n) == a.whole >= n * Units

\* a length is at most n world units
FxAtMost(a, n) ==
  \/ a.whole < n * Units
  \/ a.whole = n * Units /\ a.rest = <<0, 0>>

\* C22: whatever the generator returns (a count of 1..3, jitters in [0, 5),
\* scales in [0.7, 0.95)), every vertex of the footprint of a building lies in
\* [originX, originX + CHUNK_SIZE] x [originY, originY + CHUNK_SIZE] of its chunk.
FootprintInsideChunk ==
  "placed" \in DOMAIN probe
    => \A n \in 1..Len(probe.buildings) :
         LET origin == OriginOf(probe.chunkId)
             footprint == probe.buildings[n].footprint
         IN  /\ Len(footprint) = 4
             /\ \A k \in 1..4 :
                  /\ FxAtLeast(footprint[k].x, origin.x)
                  /\ FxAtMost(footprint[k].x, origin.x + CHUNK_SIZE)
                  /\ FxAtLeast(footprint[k].y, origin.y)
                  /\ FxAtMost(footprint[k].y, origin.y + CHUNK_SIZE)

\* the third building of the last block of a chunk with negative coordinates
\* was placed with the greatest jitters and scales
LargestBuildingInLastBlock ==
  /\ "placed" \in DOMAIN probe
  /\ probe.chunkId.x < 0
  /\ probe.b = (numRoads * numRoads) - 1
  /\ Len(probe.buildings) = 3
  /\ \A k \in 1..4 : probe.draws[k] = <<65535, 65535>>
  /\ probe.buildings[3].footprint[3].y.whole
       > (OriginOf(probe.chunkId).y + CHUNK_SIZE - ROAD_WIDTH) * Units

\* C23: a materialized chunk holds as many collider handles as its ChunkData has
\* collision primitives, whatever their kinds (box or capsule).
OneColliderPerPrimitive ==
  \A key \in DOMAIN loadedChunks :
    /\ loadedChunks[key].physicsBodies = Len(loadedChunks[key].data.collisionPrimitives)
    /\ Count(physics, key) = Len(loadedChunks[key].data.collisionPrimitives)

\* the step is the manager consuming a generation result
ConsumingStep == ResultStep /\ workerAlive'

\* C24: only a step that consumes a generation result adds a key to
\* loadedChunks or makes a create call (scene.add, createStaticBox): update(),
\* a direct unloadChunk and dispose() leave every remaining entry as it was,
\* add none, and raise no count of live meshes or bodies; update() beyond that
\* only posts requests.
CreatedOnlyByResult ==
  [][~ConsumingStep =>
       /\ DOMAIN loadedChunks' \subseteq DOMAIN loadedChunks
       /\ \A key \in DOMAIN loadedChunks' : loadedChunks'[key] = loadedChunks[key]
       /\ \A key \in DOMAIN scene' : Count(scene', key) <= Count(scene, key)
       /\ \A key \in DOMAIN physics' : Count(physics', key) <= Count(physics, key)
       /\ created' = created]_vars

\* all of update(), a direct unloadChunk of an absent key and dispose() have run
\* while chunks were loaded
EveryOperationRan ==
  /\ updates >= 2
  /\ evicted # {}
  /\ lastUnload # NoUnload
  /\ ~lastUnload.loaded
  /\ ~workerAlive
  /\ released # EmptyMap

\* the least and the greatest of two lengths
FxLess(a, b) ==
  \/ a.whole < b.whole
  \/ /\ a.whole = b.whole
     /\ \/ a.rest[1] < b.rest[1]
        \/ a.rest[1] = b.rest[1] /\ a.rest[2] < b.rest[2]

FxLeast(S) == CHOOSE a \in S : \A b \in S : ~FxLess(b, a)

FxGreatest(S) == CHOOSE a \in S : \A b \in S : ~FxLess(a, b)

\* C25: every pass of the building loop pushes one building and one box
\* primitive, so the two lists have the same length and order; the box of a
\* building has the size (width, height, depth) of the bounding box of its
\* footprint and of its height, and its centre at the centre of that bounding
\* box, at half the height.
BoxMatchesBuilding ==
  "placed" \in DOMAIN probe
    => /\ Len(probe.collisionPrimitives) = Len(probe.buildings)
       /\ \A n \in 1..Len(probe.buildings) :
            LET building == probe.buildings[n]
                box == probe.collisionPrimitives[n]
                xs == {building.footprint[k].x : k \in 1..4}
                ys == {building.footprint[k].y : k \in 1..4}
            IN  /\ box.type = "box"
                /\ FxAdd(FxLeast(xs), box.size.x) = FxGreatest(xs)
                /\ FxAdd(FxLeast(ys), box.size.z) = FxGreatest(ys)
                /\ box.size.y = building.height
                /\ FxAdd(box.position.x, box.position.x)
                     = FxAdd(FxLeast(xs), FxGreatest(xs))
                /\ FxAdd(box.position.z, box.position.z)
                     = FxAdd(FxLeast(ys), FxGreatest(ys))
                /\ FxAdd(box.position.y, box.position.y) = building.height

\* a block of three buildings is complete, with three boxes
ThreeBoxesPushed ==
  /\ "placed" \in DOMAIN probe
  /\ probe.numBuildings = 3
  /\ Len(probe.collisionPrimitives) = 3
  /\ probe.collisionPrimitives[3].position # probe.collisionPrimitives[1].position

\* the buildings of one block of a ChunkData, by their places in data.buildings
BuildingsOfBlock(data, block) ==
  {n \in 1..Len(data.buildings) : data.buildings[n].block = block}

ChunkIsFloorOfPosition ==
  ("worldPos" \in DOMAIN probe /\ probe.chunk # NoProbe)
    => LET pos == probe.worldPos
           chunk == probe.chunk
       IN  /\ DOMAIN chunk = {"x", "y"}
           /\ chunk.x * CHUNK_SIZE <= pos.x
           /\ pos.x < (chunk.x + 1) * CHUNK_SIZE
           /\ chunk.y * CHUNK_SIZE <= pos.z
           /\ pos.z < (chunk.y + 1) * CHUNK_SIZE
           /\ pos.x \in (-CHUNK_SIZE)..(-1) => chunk.x = -1
           /\ pos.x \in 0..(CHUNK_SIZE - 1) => chunk.x = 0
           /\ pos.z \in (-CHUNK_SIZE)..(-1) => chunk.y = -1

\* the chunk of a position just below zero in x and below the ground was computed
ChunkOfNegativePosition ==
  /\ "worldPos" \in DOMAIN probe
  /\ probe.chunk # NoProbe
  /\ probe.worldPos.x = -1
  /\ probe.worldPos.y < 0
  /\ probe.worldPos.z = -CHUNK_SIZE

\* C28: the chunk manager's collider handles are released only by the manager and
\* only while the physics world is alive: in Game.dispose and in Game.restart
\* every physics.removeBody call ChunkManager.dispose() issues comes before the
\* physics world is freed.
RemovedBeforeWorldFreed ==
  /\ probe.removedWhenFreed = 0
  /\ probe.worldFreed =>
       bodiesHeld(loadedChunks, DOMAIN loadedChunks) = 0

\* a restart with chunks loaded: its removeBody calls reach a live world
RestartedWithChunksLoaded ==
  /\ probe.restarts > 0
  /\ ~probe.worldFreed
  /\ \E key \in DOMAIN released : released[key].removes > 0

\* C29: a disposed manager stays empty: once dispose() has returned, neither a
\* result delivered late nor a further update() adds an entry to the resident
\* set or creates a drawable or a collider.
DisposedStaysEmpty ==
  [][~workerAlive =>
       /\ loadedChunks' = EmptyMap
       /\ \A key \in DOMAIN scene' : Count(scene', key) <= Count(scene, key)
       /\ \A key \in DOMAIN physics' : Count(physics', key) <= Count(physics, key)]_vars

\* the chunk of `key` is farther than loadRadius + 1 from `center`, in chunks
FartherThanUnloadRadius(key, center) ==
  SquaredDistance(keyToChunk(key), center) > (loadRadius + 1) * (loadRadius + 1)

\* C30: right after update(p) every loaded key is within Euclidean distance
\* loadRadius + 1 of the observer chunk of p, whatever was loaded before and
\* wherever the observer was; a loaded chunk farther away than that is there only
\* from the handling of a result until the next update().
BoundedAfterUpdate ==
  [][\A key \in DOMAIN loadedChunks' :
       FartherThanUnloadRadius(key, playerChunk')
         => /\ ~UpdateStep
            /\ \/ key \in DOMAIN loadedChunks
               \/ ResultStep /\ key = chunkKey(ResultChunk)]_vars

\* the observer moved to another chunk and the update() there unloaded chunks
\* that were loaded around the chunk before, keeping others
ObserverMovedAndEvicted ==
  /\ updates >= 2
  /\ previousChunk # NoChunk
  /\ previousChunk # playerChunk
  /\ \E key \in evicted :
       ~FartherThanUnloadRadius(key, previousChunk)
  /\ loadedChunks # EmptyMap
  /\ \A key \in DOMAIN loadedChunks : ~FartherThanUnloadRadius(key, playerChunk)

====
